---- MODULE Spec2Model ----
(***************************************************************************)
(* PicPyles: the spatial scene engine.                                     *)
(*                                                                         *)
(* Scene (models/scene.py) owns the list of placed objects and a FIFO      *)
(* queue of deferred add/remove mutations; the view (views/view.py) picks, *)
(* selects, lifts and drops tiles; the controller wires both together.     *)
(*                                                                         *)
(* Lengths in x and y are integers in 1/64 of a scene unit, heights (z) of *)
(* tiles are integers in units of the stacking step 1e-3.  The camera's z  *)
(* is in 1/64 scene units as well, clicks are in pixels.                   *)
(***************************************************************************)
EXTENDS Integers, Sequences, FiniteSets, TLC

\* ------------------------------------------------------------------ bounds
NumTiles == 2          \* ordinary tiles (folder and image tiles): 1..NumTiles
MaxQueue == 3          \* pending mutations the model lets the queue hold
MaxObjects == 3        \* entries of objects plus pending adds the model allows
MaxIterations == 2     \* largest explicit max_iterations argument tried
MaxHeight == 3         \* highest z (in stacking steps) a lift or drop may reach
MaxPending == 1        \* pending mutations while handlers run step by step
MaxPoints == 3         \* most positions a connector line is built over
MaxFiles == 2          \* image files a folder may hold
MaxColumn == 3         \* rightmost column of tiles, in steps of the spacing
MaxLines == 2          \* ConnectorLine objects alive at a time
MaxTour == 5           \* most points of a tour handed to two_opt

\* ------------------------------------------------------- program constants
TimerMaxIterations == 50     \* run_process_updates: max_iterations=50
TwoOptMaxIterations == 32    \* two_opt: while improved and iters < 32
FocalLength == 1000          \* OpenGLWidget.focal_length
SpacingW == 144              \* SceneManager.default_image_spacing, in 1/64
SpacingH == 81
NeighborBox == 640           \* tsp_nearest_neighbor: the box of +/- 2 around the
                             \* current point, in 1/5 of 1/64 scene units

Tiles == 1 .. NumTiles
LargeTile == NumTiles + 1    \* the handle of an enlarged view (LargeImageObject)
AllObjs == Tiles \cup {LargeTile}
\* the handles of ConnectorLine objects
Lines == LargeTile + 1 .. LargeTile + MaxLines
None == 0                    \* Python's None

VARIABLES
    objects,        \* Scene.objects: the list of placed objects
    update_queue,   \* Scene.update_queue: FIFO of <<action, obj>>
    position,       \* obj.position of every object: [x, y, z]
    vertices,       \* obj.vertices of every object: the list of its corners
    selected,       \* obj.selected of every object
    selected_objects, \* OpenGLWidget.selected_objects
    lock,           \* Scene.lock: "free", or "ui" while the GUI thread holds it
    pc,             \* where the GUI thread stands inside a handler
    ret,            \* the last operation called, its arguments and result
    ra_absent,      \* history: tiles in objects at the last remove_all_objects
                    \* call for which no Add was enqueued since
    ra_added,       \* history: tiles whose Add was enqueued after the last
                    \* remove_all_objects call, with no Remove enqueued since
    connector_line, \* Scene.connector_line: the ConnectorLine, if there is one
    manager,        \* the SceneManager: its images, folders, min_pos, max_pos
    unfinished_tasks, \* update_queue.unfinished_tasks: put() adds one,
                    \* task_done() takes one off, join() waits for zero
    producer        \* where the background thread stands inside
                    \* PicPylesController.modify_scene_thread

vars == <<objects, update_queue, position, vertices, selected,
          selected_objects, lock, pc, ret, ra_absent, ra_added,
          connector_line, manager, unfinished_tasks, producer>>

side_vars == <<connector_line, manager>>

join_vars == <<unfinished_tasks, producer>>

view_vars == <<position, vertices, selected, selected_objects>>
thread_vars == <<lock, pc>>

\* ----------------------------------------------------------------- helpers
Range(s) == {s[i] : i \in 1 .. Len(s)}

Min(a, b) == IF a <= b THEN a ELSE b

Max(a, b) == IF a >= b THEN a ELSE b

\* list.remove(x): drops the first entry equal to x
RECURSIVE ListRemove(_, _)
ListRemove(s, x) ==
    IF s = <<>> THEN <<>>
    ELSE IF Head(s) = x THEN Tail(s)
    ELSE <<Head(s)>> \o ListRemove(Tail(s), x)

\* the ascending list of a set of tiles
RECURSIVE SortedSeq(_)
SortedSeq(S) ==
    IF S = {} THEN <<>>
    ELSE LET m == CHOOSE x \in S : \A y \in S : x <= y
         IN <<m>> \o SortedSeq(S \ {m})

\* Scene.connector_line = None
NoLine ==
    [exists |-> FALSE, positions |-> <<>>, order |-> <<>>, visible |-> FALSE,
     handle |-> None]

\* SceneManager.__init__ up to its first scan: the ".." folder (name 0) at the
\* origin, no image, min_pos and max_pos at the origin
NewManager ==
    [images |-> <<>>,
     folders |-> <<[position |-> [x |-> 0, y |-> 0, z |-> 0], name |-> 0]>>,
     min_pos |-> [x |-> 0, y |-> 0, z |-> 0],
     max_pos |-> [x |-> 0, y |-> 0, z |-> 0]]

\* the background thread at the start of modify_scene_thread
Started == [at |-> "add_object", next |-> 1]

\* the GUI thread between two handlers
Idle == [i |-> 0, a |-> None, b |-> None, op |-> "idle", best |-> None,
         inside |-> {}, out |-> <<>>]

Put(action, obj) == [action |-> action, obj |-> obj]

Ret(op, arg, res) == [op |-> op, arg |-> arg, res |-> res]

\* [e for e in s if keep(e)] mapped to a queue entry
RECURSIVE PutAll(_, _, _)
PutAll(action, s, keep) ==
    IF s = <<>> THEN <<>>
    ELSE (IF Head(s) \in keep THEN <<Put(action, Head(s))>> ELSE <<>>)
         \o PutAll(action, Tail(s), keep)

PendingAdds(q) == Cardinality({i \in 1 .. Len(q) : q[i].action = "add"})

\* the model's cap on the queue and on the growth of objects
Fits(q) ==
    /\ Len(q) <= MaxQueue
    /\ Len(objects) + PendingAdds(q) <= MaxObjects

\* ------------------------------------------------------------ tile geometry
\* SceneManager.default_image_size (2.0, 1.125) and LargeImageObject's size
\* (10.0, 5.625), in 1/64 scene units
Size(obj) ==
    IF obj = LargeTile THEN [w |-> 640, h |-> 360] ELSE [w |-> 128, h |-> 72]

\* ImageObject.create_vertices: two triangles around the position
CreateVertices(p, size) ==
    LET hw == size.w \div 2
        hh == size.h \div 2
        bottom_left == [x |-> p.x - hw, y |-> p.y - hh]
        bottom_right == [x |-> p.x + hw, y |-> p.y - hh]
        top_left == [x |-> p.x - hw, y |-> p.y + hh]
        top_right == [x |-> p.x + hw, y |-> p.y + hh]
    IN <<bottom_left, bottom_right, top_right, top_right, top_left, bottom_left>>

\* where the tiles of the store specification lie: a pile of overlapping tiles
\* at increasing heights
PilePosition(t) == [x |-> 16 * (t - 1), y |-> 0, z |-> t - 1]

\* ------------------------------------------------------------- Scene: store
\* add_object, remove_object, remove_all_objects and every iteration of
\* process_updates run "with self.lock": they wait while the lock is held
\* Scene.add_object without the test "obj not in self.objects"
AddObjectQueueAlways(q, obj) == Append(q, Put("add", obj))

\* Scene.add_object
AddObjectQueue(q, obj) ==
    IF obj \notin Range(objects) THEN Append(q, Put("add", obj)) ELSE q

\* Scene.remove_object
RemoveObjectQueue(q, obj) ==
    IF obj \in Range(objects) THEN Append(q, Put("remove", obj)) ELSE q

\* history of remove_all_objects, kept along every enqueue, and the count
\* queue.Queue.put keeps of the entries put
Enqueued(q) == {q[i] : i \in Len(update_queue) + 1 .. Len(q)}

TrackHistory(q) ==
    LET new == Enqueued(q)
        adds == {e.obj : e \in {n \in new : n.action = "add"}}
        removes == {e.obj : e \in {n \in new : n.action = "remove"}}
    IN /\ ra_absent' = ra_absent \ adds
       /\ ra_added' = (ra_added \cup adds) \ removes
       /\ unfinished_tasks' = unfinished_tasks + Len(q) - Len(update_queue)

AddObject(obj) ==
    LET q == AddObjectQueue(update_queue, obj)
    IN /\ lock = "free"
       /\ Fits(q)
       /\ update_queue' = q
       /\ TrackHistory(q)
       /\ ret' = Ret("add_object", None, None)
       /\ UNCHANGED <<side_vars, objects, view_vars, thread_vars, producer>>

RemoveObject(obj) ==
    LET q == RemoveObjectQueue(update_queue, obj)
    IN /\ lock = "free"
       /\ Fits(q)
       /\ update_queue' = q
       /\ TrackHistory(q)
       /\ ret' = Ret("remove_object", None, None)
       /\ UNCHANGED <<side_vars, objects, view_vars, thread_vars, producer>>

\* Scene.remove_all_objects
RemoveAllObjects ==
    LET q == update_queue \o PutAll("remove", objects, AllObjs)
    IN /\ lock = "free"
       /\ Fits(q)
       /\ update_queue' = q
       /\ ra_absent' = Range(objects)
       /\ ra_added' = {}
       /\ unfinished_tasks' = unfinished_tasks + Len(q) - Len(update_queue)
       /\ UNCHANGED producer
       /\ ret' = Ret("remove_all_objects", None, None)
       /\ UNCHANGED <<side_vars, objects, view_vars, thread_vars>>

\* Scene.sync_objects without its second loop
SyncObjectsQueueAdding(q, obj_list) ==
    q \o PutAll("add", obj_list, AllObjs \ Range(objects))

\* Scene.sync_objects: both loops go through add_object / remove_object, and
\* objects does not change in between
SyncObjectsQueue(q, obj_list) ==
    q \o PutAll("add", obj_list, AllObjs \ Range(objects))
      \o PutAll("remove", objects, AllObjs \ Range(obj_list))

SyncObjects(obj_list) ==
    LET q == SyncObjectsQueue(update_queue, obj_list)
    IN /\ lock = "free"
       /\ Fits(q)
       /\ update_queue' = q
       /\ TrackHistory(q)
       /\ ret' = Ret("sync_objects", None, None)
       /\ UNCHANGED <<side_vars, objects, view_vars, thread_vars, producer>>

\* SceneManager.load_objects_into_scene: every folder, then every image, through
\* signal_add_image -> Controller.add_image_to_scene -> Scene.add_object
LoadObjectsIntoScene(q, folders, images) ==
    q \o PutAll("add", folders \o images, AllObjs \ Range(objects))

\* Controller.rescan_folder_and_update_scene, the scene manager tracking the
\* given folders and images (list_all_objects is images + folders)
RescanFolderAndUpdateScene(folders, images) ==
    LET q == SyncObjectsQueue(LoadObjectsIntoScene(update_queue, folders, images),
                              images \o folders)
    IN /\ lock = "free"
       /\ Fits(q)
       /\ update_queue' = q
       /\ TrackHistory(q)
       /\ ret' = Ret("rescan_folder_and_update_scene", None, None)
       /\ UNCHANGED <<side_vars, objects, view_vars, thread_vars, producer>>

\* the loop of Scene.process_updates
RECURSIVE ProcessLoopLifo(_, _, _, _)
ProcessLoopLifo(objs, q, iterations, max_iterations) ==
    IF iterations < max_iterations /\ q # <<>>
    THEN LET e == q[Len(q)]
             applied == IF e.action = "add" THEN Append(objs, e.obj)
                        ELSE IF e.obj \in Range(objs) THEN ListRemove(objs, e.obj)
                        ELSE objs
         IN ProcessLoopLifo(applied, SubSeq(q, 1, Len(q) - 1), iterations + 1,
                            max_iterations)
    ELSE [objects |-> objs, queue |-> q, updated |-> iterations > 0]

\* the loop of Scene.process_updates returning whether the queue is empty
RECURSIVE ProcessLoopEmptied(_, _, _, _)
ProcessLoopEmptied(objs, q, iterations, max_iterations) ==
    IF iterations < max_iterations /\ q # <<>>
    THEN LET e == Head(q)
             applied == IF e.action = "add" THEN Append(objs, e.obj)
                        ELSE IF e.obj \in Range(objs) THEN ListRemove(objs, e.obj)
                        ELSE objs
         IN ProcessLoopEmptied(applied, Tail(q), iterations + 1, max_iterations)
    ELSE [objects |-> objs, queue |-> q, updated |-> q = <<>>]

RECURSIVE ProcessLoop(_, _, _, _)
ProcessLoop(objs, q, iterations, max_iterations) ==
    IF iterations < max_iterations /\ q # <<>>
    THEN LET e == Head(q)
             applied == IF e.action = "add" THEN Append(objs, e.obj)
                        ELSE IF e.obj \in Range(objs) THEN ListRemove(objs, e.obj)
                        ELSE objs
         IN ProcessLoop(applied, Tail(q), iterations + 1, max_iterations)
    ELSE [objects |-> objs, queue |-> q, updated |-> iterations > 0]

\* Scene.process_updates(max_iterations)
ProcessUpdates(max_iterations) ==
    LET r == ProcessLoop(objects, update_queue, 0, max_iterations)
    IN /\ lock = "free"
       /\ objects' = r.objects
       /\ update_queue' = r.queue
       /\ unfinished_tasks' = unfinished_tasks - (Len(update_queue) - Len(r.queue))
       /\ ret' = Ret("process_updates", max_iterations, r.updated)
       /\ UNCHANGED <<side_vars, view_vars, thread_vars, ra_absent, ra_added, producer>>

\* Scene.run_process_updates: the timer's tick
RunProcessUpdates == ProcessUpdates(TimerMaxIterations)

\* ----------------------------------------------------------- Scene: queries
\* the point where the ray from the camera through the click meets the tile
\* plane (Scene.ray_intersects_object, Scene.query_inside).  The ray direction
\* is click / |click|; the norm cancels in direction * distance / direction[2].
Project(cam_pos, click_pos_3d) ==
    LET object_plane_distance == 0 - cam_pos.z
    IN [x |-> (click_pos_3d.x * object_plane_distance) \div click_pos_3d.z - cam_pos.x,
        y |-> (click_pos_3d.y * object_plane_distance) \div click_pos_3d.z - cam_pos.y]

\* Scene.ray_intersects_object: the point against position +/- size / 2
RayIntersectsObject(ray_origin, click_pos_3d, obj) ==
    LET intersection_point == Project(ray_origin, click_pos_3d)
        half_w == Size(obj).w \div 2
        half_h == Size(obj).h \div 2
    IN /\ position[obj].x - half_w <= intersection_point.x
       /\ intersection_point.x <= position[obj].x + half_w
       /\ position[obj].y - half_h <= intersection_point.y
       /\ intersection_point.y <= position[obj].y + half_h

\* the loop of Scene.query over objs[i..], best_obj_candidate so far
RECURSIVE QueryLoopLowest(_, _, _, _, _)
QueryLoopLowest(objs, i, best, cam_pos, click_pos_3d) ==
    IF i > Len(objs) THEN best
    ELSE LET obj == objs[i]
             better == /\ RayIntersectsObject(cam_pos, click_pos_3d, obj)
                       /\ (best = None \/ position[obj].z < position[best].z)
         IN QueryLoopLowest(objs, i + 1, IF better THEN obj ELSE best,
                            cam_pos, click_pos_3d)

RECURSIVE QueryLoop(_, _, _, _, _)
QueryLoop(objs, i, best, cam_pos, click_pos_3d) ==
    IF i > Len(objs) THEN best
    ELSE LET obj == objs[i]
             better == /\ RayIntersectsObject(cam_pos, click_pos_3d, obj)
                       /\ (best = None \/ position[obj].z > position[best].z)
         IN QueryLoop(objs, i + 1, IF better THEN obj ELSE best,
                      cam_pos, click_pos_3d)

\* what Scene.query iterates over
QueriedPending ==
    objects \o [i \in 1 .. Len(update_queue) |-> update_queue[i].obj]

Queried == objects

\* Scene.query
QueryResult(cam_pos, click_pos_3d) ==
    QueryLoop(Queried, 1, None, cam_pos, click_pos_3d)

Query(cam_pos, click_pos_3d) ==
    /\ ret' = Ret("query", [cam_pos |-> cam_pos, click_pos_3d |-> click_pos_3d],
                  QueryResult(cam_pos, click_pos_3d))
    /\ UNCHANGED <<side_vars, objects, update_queue, view_vars, thread_vars, ra_absent, ra_added, join_vars>>

\* orientation() inside Scene.do_edges_intersect
Orientation(p, q, r) ==
    LET val == (q.y - p.y) * (r.x - q.x) - (q.x - p.x) * (r.y - q.y)
    IN IF val = 0 THEN 0 ELSE IF val > 0 THEN 1 ELSE 2

\* Scene.do_edges_intersect: the general case only
DoEdgesIntersect(p1, q1, p2, q2) ==
    /\ Orientation(p1, q1, p2) # Orientation(p1, q1, q2)
    /\ Orientation(p2, q2, p1) # Orientation(p2, q2, q1)

\* Scene.edges_intersect
EdgesIntersect(verts, start, end) ==
    LET rect_edges == << <<start, [x |-> end.x, y |-> start.y]>>,
                         <<[x |-> end.x, y |-> start.y], end>>,
                         <<end, [x |-> start.x, y |-> end.y]>>,
                         <<[x |-> start.x, y |-> end.y], start>> >>
    IN \E i \in 1 .. Len(verts) : \E e \in 1 .. 4 :
          DoEdgesIntersect(verts[i], verts[(i % Len(verts)) + 1],
                           rect_edges[e][1], rect_edges[e][2])

SetMin(S) == CHOOSE m \in S : \A v \in S : m <= v

SetMax(S) == CHOOSE m \in S : \A v \in S : m >= v

\* Scene.inside_rectangle
InsideRectangleOrdered(obj, start, end) ==
    LET verts == vertices[obj]
        xs == {verts[i].x : i \in 1 .. Len(verts)}
        ys == {verts[i].y : i \in 1 .. Len(verts)}
    IN \/ /\ SetMax(xs) >= start.x /\ SetMin(xs) <= end.x
          /\ SetMax(ys) >= start.y /\ SetMin(ys) <= end.y
       \/ EdgesIntersect(verts, start, end)

InsideRectangle(obj, start, end) ==
    LET verts == vertices[obj]
        xs == {verts[i].x : i \in 1 .. Len(verts)}
        ys == {verts[i].y : i \in 1 .. Len(verts)}
        obj_minx == SetMin(xs)
        obj_maxx == SetMax(xs)
        obj_miny == SetMin(ys)
        obj_maxy == SetMax(ys)
        rect_minx == Min(start.x, end.x)
        rect_maxx == Max(start.x, end.x)
        rect_miny == Min(start.y, end.y)
        rect_maxy == Max(start.y, end.y)
        overlap_x == obj_maxx >= rect_minx /\ obj_minx <= rect_maxx
        overlap_y == obj_maxy >= rect_miny /\ obj_miny <= rect_maxy
    IN \/ overlap_x /\ overlap_y
       \/ EdgesIntersect(verts, start, end)
       \/ /\ obj_minx < rect_minx /\ rect_minx < obj_maxx
          /\ obj_miny < rect_miny /\ rect_miny < obj_maxy
          /\ obj_minx < rect_maxx /\ rect_maxx < obj_maxx
          /\ obj_miny < rect_maxy /\ rect_maxy < obj_maxy

\* Scene.query_inside_rectangle: a set
QueryInsideRectangleResult(start, end) ==
    {obj \in Range(Queried) : InsideRectangle(obj, start, end)}

QueryInsideRectangle(start, end) ==
    /\ ret' = Ret("query_inside_rectangle", [start |-> start, end |-> end],
                  QueryInsideRectangleResult(start, end))
    /\ UNCHANGED <<side_vars, objects, update_queue, view_vars, thread_vars, ra_absent, ra_added, join_vars>>

\* Scene.query_inside: both clicks projected to the tile plane
QueryInside(cam_pos, click_start_3d, click_end_3d) ==
    LET start == Project(cam_pos, click_start_3d)
        end == Project(cam_pos, click_end_3d)
    IN /\ ret' = Ret("query_inside", [start |-> start, end |-> end],
                     QueryInsideRectangleResult(start, end))
       /\ UNCHANGED <<side_vars, objects, update_queue, view_vars, thread_vars, ra_absent, ra_added, join_vars>>

\* ------------------------------------------------------ view: enlarged tile
\* ImageObject.object_type: tile 1 is the ".." folder every scene manager
\* tracks, the other tiles are images
ObjectType(obj) == IF obj = 1 THEN "folder" ELSE "image"

\* LargeImageObject.__init__: position (0, 0, 0.1)
LargePosition == [x |-> 0, y |-> 0, z |-> 100]

\* obj.get_bounding_box(): the corners of the tile's own footprint
GetBoundingBox(p, size) ==
    [bottom_right |-> [x |-> p.x + size.w \div 2, y |-> p.y - size.h \div 2],
     top_left |-> [x |-> p.x - size.w \div 2, y |-> p.y + size.h \div 2]]

\* OpenGLWidget.get_stack_placement_height of obj standing at p, the objects
\* of the scene standing at pos
GetStackPlacementHeight(obj, p, pos) ==
    LET box == GetBoundingBox(p, Size(obj))
        objs == QueryInsideRectangleResult(box.top_left, box.bottom_right)
        heights == {pos[o].z : o \in objs \ {obj}}
    IN IF heights # {} THEN SetMax(heights) + 1 ELSE 0

\* obj.set_position(new_position) after obj.get_position(): the position is
\* assigned
SetPosition(pos, obj, new_position) == [pos EXCEPT ![obj] = new_position]

\* OpenGLWidget.lift_object
LiftObject(pos, obj) ==
    SetPosition(pos, obj,
                [pos[obj] EXCEPT !.z = GetStackPlacementHeight(obj, pos[obj], pos)])

\* OpenGLWidget.drop_object
DropObject(pos, obj) ==
    SetPosition(pos, obj,
                [pos[obj] EXCEPT !.z = GetStackPlacementHeight(obj, pos[obj], pos)])

\* the loop of set_selected_bounding_boxes: one object after the other
RECURSIVE LiftLoop(_, _)
LiftLoop(pos, objs) ==
    IF objs = <<>> THEN pos ELSE LiftLoop(LiftObject(pos, Head(objs)), Tail(objs))

\* the loop of reset_selected_bounding_boxes and reset_all_bounding_boxes
RECURSIVE DropLoop(_, _)
DropLoop(pos, objs) ==
    IF objs = <<>> THEN pos ELSE DropLoop(DropObject(pos, Head(objs)), Tail(objs))

\* obj.selected = True for every obj of objs, whatever the flag
SetSelectedStuck(objs, flag) ==
    [o \in AllObjs |-> IF o \in Range(objs) THEN TRUE ELSE selected[o]]

\* obj.selected = flag for the first obj of objs only
SetSelectedFirst(objs, flag) ==
    [o \in AllObjs |-> IF objs # <<>> /\ o = Head(objs) THEN flag ELSE selected[o]]

\* obj.selected = flag for every obj of objs
SetSelected(objs, flag) ==
    [o \in AllObjs |-> IF o \in Range(objs) THEN flag ELSE selected[o]]

\* OpenGLWidget.mousePressEvent, double click on an image tile: a
\* LargeImageObject is built at (0, 0, 0.1), moved with move_to in front of the
\* camera, and handed to Controller.enlarge_image -> Scene.add_object.
\* ImageObject.move_to assigns position and leaves vertices as built.
EnlargeImage(cam_pos, click_pos_3d) ==
    LET clicked == QueryResult(cam_pos, click_pos_3d)
        new_height == GetStackPlacementHeight(LargeTile, LargePosition, position)
        q == AddObjectQueue(update_queue, LargeTile)
    IN /\ clicked # None
       /\ ObjectType(clicked) = "image"
       /\ clicked # LargeTile
       /\ LargeTile \notin Range(objects)
       /\ \A i \in 1 .. Len(update_queue) : update_queue[i].obj # LargeTile
       /\ Fits(q)
       /\ position' = [position EXCEPT ![LargeTile] =
                          [x |-> 0 - cam_pos.x, y |-> 0 - cam_pos.y, z |-> new_height]]
       /\ vertices' = [vertices EXCEPT ![LargeTile] =
                          CreateVertices(LargePosition, Size(LargeTile))]
       /\ update_queue' = q
       /\ TrackHistory(q)
       /\ ret' = Ret("enlarge_image", [cam_pos |-> cam_pos], clicked)
       /\ UNCHANGED <<side_vars, objects, selected, selected_objects, thread_vars, producer>>

\* OpenGLWidget.paintGL -> setup_geometry: every object of the scene whose
\* thumbnail is ready is rendered; ImageObject.render_object loads the texture
\* on the first rendering, and load_texture rebuilds vertices from position.
\* ready: the objects whose has_thumbnail the thumbnail workers have set.
SetupGeometryBlock(ready) ==
    /\ vertices' = [o \in AllObjs |->
                       IF o \in Range(objects) \cap ready
                       THEN CreateVertices(position[o], Size(o))
                       ELSE vertices[o]]
    /\ ret' = Ret("paintGL", None, None)
    /\ UNCHANGED <<side_vars, objects, update_queue, position, selected, selected_objects,
                   ra_absent, ra_added, join_vars>>

PaintGL(ready) ==
    /\ SetupGeometryBlock(ready)
    /\ UNCHANGED thread_vars

\* -------------------------------------------------------------------- Init
Init ==
    /\ objects = <<>>
    /\ update_queue = <<>>
    /\ position = [o \in AllObjs |-> IF o = LargeTile THEN LargePosition
                                     ELSE PilePosition(o)]
    /\ vertices = [o \in AllObjs |-> CreateVertices(position[o], Size(o))]
    /\ selected = [o \in AllObjs |-> FALSE]
    /\ selected_objects = <<>>
    /\ lock = "free"
    /\ pc = Idle
    /\ ret = Ret("init", None, None)
    /\ ra_absent = {}
    /\ ra_added = {}
    /\ unfinished_tasks = 0
    /\ producer = Started
    /\ connector_line = NoLine
    /\ manager = NewManager

\* the tiles a scene manager tracks: the ".." folder tile 1 and some images
Tracked == {S \in SUBSET Tiles : 1 \in S}

Next ==
    \/ \E obj \in Tiles : AddObject(obj)
    \/ \E obj \in Tiles : RemoveObject(obj)
    \/ RemoveAllObjects
    \/ \E S \in SUBSET Tiles : SyncObjects(SortedSeq(S))
    \/ \E S \in Tracked : RescanFolderAndUpdateScene(<<1>>, SortedSeq(S \ {1}))
    \/ \E k \in 1 .. MaxIterations : ProcessUpdates(k)
    \/ RunProcessUpdates

Spec == Init /\ [][Next]_vars

\* -------------------------------- the store with an enlarged view in it
\* Controller.enlarge_image and close_image add and remove the enlarged view;
\* the tiles come and go with the scene manager's lists, which hold tiles only
NextSync ==
    \/ AddObject(LargeTile)
    \/ RemoveObject(LargeTile)
    \/ \E S \in SUBSET Tiles : SyncObjects(SortedSeq(S))
    \/ \E k \in 1 .. MaxIterations : ProcessUpdates(k)
    \/ RunProcessUpdates

SpecSync == Init /\ [][NextSync]_vars

\* ------------------------------------------- the store with pending queries
StoreCam == [x |-> 0, y |-> 0, z |-> -1000]

StoreOrigin == [x |-> 0, y |-> 0, z |-> FocalLength]

StoreClicks == {StoreOrigin, [x |-> 500, y |-> 0, z |-> FocalLength]}

NextQuery ==
    \/ \E obj \in Tiles : AddObject(obj)
    \/ \E obj \in Tiles : RemoveObject(obj)
    \/ \E k \in 1 .. MaxIterations : ProcessUpdates(k)
    \/ \E c \in StoreClicks : Query(StoreCam, c)
    \/ \E b \in StoreClicks : QueryInside(StoreCam, StoreOrigin, b)
    \/ \E b \in StoreClicks :
          QueryInsideRectangle(Project(StoreCam, b), Project(StoreCam, StoreOrigin))

SpecQuery == Init /\ [][NextQuery]_vars

\* ---------------------------------------------------- point pick on a scene
\* the scenes picked in: every list of distinct tiles, each tile anywhere on a
\* small grid of overlapping places and heights
RECURSIVE Lists(_)
Lists(S) ==
    {<<>>} \cup UNION {{<<t>> \o l : l \in Lists(S \ {t})} : t \in S}

PickPositions == [x : {0, 64}, y : {0, 36}, z : {0, 1}]

CamPositions == {[x |-> 0, y |-> 0, z |-> -1000],
                 [x |-> 64, y |-> 36, z |-> -2000]}

PickClicks == [x : {-64, 0, 64, 65}, y : {0, 36, 37}, z : {FocalLength}]

InitPick ==
    /\ objects \in Lists(Tiles)
    /\ update_queue = <<>>
    /\ \E places \in [Tiles -> PickPositions] :
          position = [o \in AllObjs |-> IF o = LargeTile THEN LargePosition
                                        ELSE places[o]]
    /\ vertices = [o \in AllObjs |-> CreateVertices(position[o], Size(o))]
    /\ selected = [o \in AllObjs |-> FALSE]
    /\ selected_objects = <<>>
    /\ lock = "free"
    /\ pc = Idle
    /\ ret = Ret("init", None, None)
    /\ ra_absent = {}
    /\ ra_added = {}
    /\ unfinished_tasks = 0
    /\ producer = Started
    /\ connector_line = NoLine
    /\ manager = NewManager

NextPick ==
    \E cam \in CamPositions : \E c \in PickClicks : Query(cam, c)

SpecPick == InitPick /\ [][NextPick]_vars

\* ------------------------------------------- rectangle select on a scene
\* the scene shows every tile, each at a corner of the unit square
RectPositions == [x : {0, 64}, y : {0, 64}, z : {0}]

\* the camera over the origin and panned away from it
RectCams == {[x |-> 0, y |-> 0, z |-> -1000], [x |-> 1000, y |-> 0, z |-> -1000]}

RectClicks == {[x |-> 0, y |-> 0, z |-> FocalLength],
               [x |-> 1000, y |-> 0, z |-> FocalLength],
               [x |-> 1064, y |-> 64, z |-> FocalLength]}

\* corners of selection rectangles: around the panned enlarged tile, around
\* the unit square, inside one tile, and away from every tile
RectCorners == {[x |-> -1400, y |-> -200], [x |-> -600, y |-> 200],
                [x |-> -64, y |-> -36], [x |-> 128, y |-> 100],
                [x |-> 10, y |-> 10], [x |-> 400, y |-> 200]}

InitRect ==
    /\ objects = SortedSeq(Tiles)
    /\ update_queue = <<>>
    /\ \E places \in [Tiles -> RectPositions] :
          position = [o \in AllObjs |-> IF o = LargeTile THEN LargePosition
                                        ELSE places[o]]
    /\ vertices = [o \in AllObjs |-> CreateVertices(position[o], Size(o))]
    /\ selected = [o \in AllObjs |-> FALSE]
    /\ selected_objects = <<>>
    /\ lock = "free"
    /\ pc = Idle
    /\ ret = Ret("init", None, None)
    /\ ra_absent = {}
    /\ ra_added = {}
    /\ unfinished_tasks = 0
    /\ producer = Started
    /\ connector_line = NoLine
    /\ manager = NewManager

NextRect ==
    \/ \E cam \in RectCams : \E c \in RectClicks : EnlargeImage(cam, c)
    \/ RunProcessUpdates
    \/ \E ready \in SUBSET {LargeTile} : PaintGL(ready)
    \/ \E a, b \in RectCorners : QueryInsideRectangle(a, b)
    \/ \E cam \in RectCams : \E a \in RectClicks :
          QueryInside(cam, a, [x |-> 1064, y |-> 64, z |-> FocalLength])

SpecRect == InitRect /\ [][NextRect]_vars

\* ------------------------------------------------ selection on a scene
\* the model's cap on the heights a handler writes
Capped(pos) == \A o \in AllObjs : pos[o] # position[o] => pos[o].z <= MaxHeight

\* OpenGLWidget.mousePressEvent, single click: the whole handler, from
\* get_clicked_object to the selection of the clicked object
ButtonPress(button, cam_pos, click_pos_3d) ==
    LET clicked == QueryResult(cam_pos, click_pos_3d)
        hit == clicked # None /\ button = "left"
        dropped == DropLoop(position, selected_objects)
        reset == SetSelected(selected_objects, FALSE)
    IN /\ lock = "free"
       /\ IF hit /\ selected_objects = <<>>
          THEN /\ selected_objects' = <<clicked>>
               /\ selected' = SetSelected(<<clicked>>, TRUE)
               /\ position' = LiftLoop(position, <<clicked>>)
          ELSE IF hit /\ clicked \in Range(selected_objects)
          THEN UNCHANGED <<selected_objects, selected, position>>
          ELSE IF hit
          THEN /\ selected_objects' = <<clicked>>
               /\ selected' = [reset EXCEPT ![clicked] = TRUE]
               /\ position' = LiftLoop(dropped, <<clicked>>)
          ELSE /\ selected_objects' = <<>>
               /\ selected' = reset
               /\ position' = dropped
       /\ Capped(position')
       /\ ret' = Ret("mousePressEvent",
                     [cam_pos |-> cam_pos, click_pos_3d |-> click_pos_3d,
                      button |-> button,
                      dropped |-> IF hit /\ clicked \in Range(selected_objects) THEN <<>>
                                  ELSE selected_objects,
                      lifted |-> hit /\ clicked \notin Range(selected_objects),
                      just_selected |-> ret.op = "mousePressEvent" /\ ret.arg.lifted],
                     clicked)
       /\ UNCHANGED <<side_vars, objects, update_queue, vertices, thread_vars,
                      ra_absent, ra_added, join_vars>>

\* the single click with the left button
SingleClick(cam_pos, click_pos_3d) == ButtonPress("left", cam_pos, click_pos_3d)

\* the places the camera and the clicks of this scene go: over the tiles, and
\* over the place an enlarged view is put when the camera is panned
StackCams == {[x |-> 0, y |-> 0, z |-> -1000], [x |-> 400, y |-> 0, z |-> -1000]}

StackClicks == {[x |-> 0, y |-> 0, z |-> FocalLength],
                [x |-> 464, y |-> 64, z |-> FocalLength],
                [x |-> 900, y |-> 300, z |-> FocalLength]}

NextStack ==
    \/ \E cam \in StackCams : \E c \in StackClicks : EnlargeImage(cam, c)
    \/ \E cam \in StackCams : \E c \in StackClicks : SingleClick(cam, c)
    \/ RunProcessUpdates
    \/ \E ready \in SUBSET {LargeTile} : PaintGL(ready)

SpecStack == InitRect /\ [][NextStack]_vars

\* ------------------------------------------------ selecting and dragging
\* SceneObject.update_position of every obj of objs: position += dxyz, the
\* vertices built anew; pv holds the positions and the vertices
RECURSIVE DragLoopFirst(_, _, _)
DragLoopFirst(pv, objs, dxyz) ==
    IF objs = <<>> THEN pv
    ELSE LET obj == Head(objs)
             p == [x |-> pv.position[obj].x + dxyz.x,
                   y |-> pv.position[obj].y + dxyz.y,
                   z |-> pv.position[obj].z + dxyz.z]
         IN [position |-> [pv.position EXCEPT ![obj] = p],
             vertices |-> [pv.vertices EXCEPT ![obj] = CreateVertices(p, Size(obj))]]

RECURSIVE DragLoop(_, _, _)
DragLoop(pv, objs, dxyz) ==
    IF objs = <<>> THEN pv
    ELSE LET obj == Head(objs)
             p == [x |-> pv.position[obj].x + dxyz.x,
                   y |-> pv.position[obj].y + dxyz.y,
                   z |-> pv.position[obj].z + dxyz.z]
         IN DragLoop([position |-> [pv.position EXCEPT ![obj] = p],
                      vertices |-> [pv.vertices EXCEPT ![obj] =
                                       CreateVertices(p, Size(obj))]],
                     Tail(objs), dxyz)

\* the tiles stay on the places looked at
OnPlaces(pos) == \A o \in Tiles : [pos[o] EXCEPT !.z = 0] \in RectPositions

\* current_button, as the last press has left it (None after a release)
CurrentButton ==
    IF ret.op = "mousePressEvent" THEN ret.arg.button
    ELSE IF ret.op = "mouseMoveEvent" THEN ret.arg
    ELSE "none"

\* OpenGLWidget.mouseMoveEvent, the mouse having moved by (dx, dy) since
\* last_mouse_pos: with the left button held and a selection the selected
\* objects are moved; otherwise no tile is touched (selection_end or the
\* camera follows the mouse, and the press is still the last thing done)
MouseMoveEvent(cam_pos, dx, dy) ==
    LET new_position == [x |-> (dx * (0 - cam_pos.z)) \div FocalLength,
                         y |-> (dy * cam_pos.z) \div FocalLength,
                         z |-> 0]
        moved == DragLoop([position |-> position, vertices |-> vertices],
                          selected_objects, new_position)
    IN /\ lock = "free"
       /\ CurrentButton # "none"
       /\ IF CurrentButton = "left" /\ selected_objects # <<>>
          THEN /\ position' = moved.position
               /\ vertices' = moved.vertices
               /\ ret' = Ret("mouseMoveEvent", CurrentButton, None)
          ELSE UNCHANGED <<position, vertices, ret>>
       /\ OnPlaces(position')
       /\ UNCHANGED <<side_vars, objects, update_queue, selected, selected_objects,
                      thread_vars, ra_absent, ra_added, join_vars>>

\* OpenGLWidget.mouseReleaseEvent, selection_end being where the mouse is let
\* go: after a left press on no tile the tiles inside the selection rectangle
\* become the selection (a set, iterated in some order) and are selected
ReleaseButton(cam_pos, click_end_3d) ==
    /\ lock = "free"
    /\ CurrentButton # "none"
    /\ IF ret.op = "mousePressEvent" /\ ret.arg.button = "left" /\ ret.res = None
       THEN LET inside == QueryInsideRectangleResult(
                              Project(cam_pos, ret.arg.click_pos_3d),
                              Project(cam_pos, click_end_3d))
            IN \E order \in Lists(inside) :
                  /\ Range(order) = inside
                  /\ selected_objects' = order
                  /\ selected' = SetSelected(order, TRUE)
                  /\ position' = LiftLoop(position, order)
                  /\ ret' = Ret("mouseReleaseEvent", None, inside)
       ELSE /\ UNCHANGED <<selected_objects, selected, position>>
            /\ ret' = Ret("mouseReleaseEvent", None, {})
    /\ Capped(position')
    /\ UNCHANGED <<side_vars, objects, update_queue, vertices, thread_vars,
                   ra_absent, ra_added, join_vars>>

SelectCam == [x |-> 0, y |-> 0, z |-> -1000]

\* clicks on the tiles at (0, 0) and (1, 0), on those at (1, 1), and on none
SelectClicks == {[x |-> 0, y |-> 0, z |-> FocalLength],
                 [x |-> 100, y |-> 64, z |-> FocalLength],
                 [x |-> 500, y |-> 500, z |-> FocalLength]}

Buttons == {"left", "right"}

MouseSteps == {-64, 0, 64}

NextSelect ==
    \/ \E button \in Buttons : \E c \in SelectClicks : ButtonPress(button, SelectCam, c)
    \/ \E dx, dy \in MouseSteps : MouseMoveEvent(SelectCam, dx, dy)
    \/ \E c \in SelectClicks : ReleaseButton(SelectCam, c)

SpecSelect == InitRect /\ [][NextSelect]_vars

\* ------------------------------------------------- handlers, step by step
\* The GUI thread runs one handler at a time; pc is where it stands.  A producer
\* thread (PicPylesController.modify_scene_thread) calls add_object and
\* remove_object at any time the lock is free.  The timer's tick
\* (run_process_updates) is an event of the GUI thread: it runs between two
\* handlers.  A handler's "with self.scene.lock" is a step of its own, so that
\* the steps of the block start with the lock held.
ReadOps == {"query", "query_inside_rectangle", "get_object_positions"}

\* the model's cap on the heights lifts and drops reach
Below(pos) == \A o \in Tiles : pos[o].z <= MaxHeight

\* the model's cap on what the producer has pending
Room == Len(update_queue) < MaxPending

At(op, a, b) == [Idle EXCEPT !.op = op, !.i = 1, !.a = a, !.b = b]

\* run_process_updates as an event of the GUI thread
TimerTick ==
    /\ pc.op = "idle"
    /\ RunProcessUpdates

\* mousePressEvent (single click, left button) up to get_clicked_object ->
\* Scene.query, about to iterate over objects
MousePressEvent(cam_pos, click_pos_3d) ==
    /\ pc.op = "idle"
    /\ pc' = At("query", cam_pos, click_pos_3d)
    /\ UNCHANGED <<side_vars, objects, update_queue, view_vars, lock, ret, ra_absent, ra_added, join_vars>>

\* Scene.query: one pass of "for obj in self.objects"
QueryIterate ==
    /\ pc.op = "query"
    /\ pc.i <= Len(objects)
    /\ pc' = [pc EXCEPT !.i = @ + 1,
                        !.best = QueryLoop(<<objects[pc.i]>>, 1, pc.best, pc.a, pc.b)]
    /\ UNCHANGED <<side_vars, objects, update_queue, view_vars, lock, ret, ra_absent, ra_added, join_vars>>

\* Scene.query returns; mousePressEvent goes on with the clicked object
QueryReturn ==
    LET clicked == pc.best
    IN /\ pc.op = "query"
       /\ pc.i > Len(objects)
       /\ ret' = Ret("query", [cam_pos |-> pc.a, click_pos_3d |-> pc.b], clicked)
       /\ IF clicked # None /\ selected_objects = <<>>
          THEN /\ selected_objects' = <<clicked>>
               /\ pc' = At("set_selected_bounding_boxes", None, None)
          ELSE IF clicked # None /\ clicked \in Range(selected_objects)
          THEN /\ pc' = Idle
               /\ UNCHANGED selected_objects
          ELSE /\ pc' = [At("reset_selected_bounding_boxes", None, None)
                            EXCEPT !.best = clicked]
               /\ UNCHANGED selected_objects
       /\ UNCHANGED <<side_vars, objects, update_queue, position, vertices, selected, lock,
                      ra_absent, ra_added, join_vars>>

\* OpenGLWidget.reset_selected_bounding_boxes, and what mousePressEvent does
\* after it: select the clicked object, or clear the selection
ResetSelectedBoundingBoxes ==
    /\ pc.op = "reset_selected_bounding_boxes"
    /\ selected' = SetSelected(selected_objects, FALSE)
    /\ position' = DropLoop(position, selected_objects)
    /\ Below(position')
    /\ IF pc.best # None
       THEN /\ selected_objects' = <<pc.best>>
            /\ pc' = At("set_selected_bounding_boxes", None, None)
       ELSE /\ selected_objects' = <<>>
            /\ pc' = Idle
    /\ ret' = Ret("reset_selected_bounding_boxes", None, None)
    /\ UNCHANGED <<side_vars, objects, update_queue, vertices, lock, ra_absent, ra_added, join_vars>>

\* the operations that take Scene.lock ("with self.lock" in Scene, "with
\* self.scene.lock" in the widget), the read operations among them
WithLockAndQueries ==
    {"add_object", "remove_object", "process_updates", "set_selected_bounding_boxes",
     "reset_all_bounding_boxes", "setup_geometry", "query", "query_inside_rectangle",
     "get_object_positions"}

\* the operations that take Scene.lock ("with self.lock" in Scene, "with
\* self.scene.lock" in the widget)
WithLock ==
    {"add_object", "remove_object", "process_updates", "set_selected_bounding_boxes",
     "reset_all_bounding_boxes", "setup_geometry"}

\* what lift_object calls for every obj of objs
LiftCalls(objs) ==
    IF objs = <<>> THEN {}
    ELSE {"lift_object", "get_position", "get_stack_placement_height", "get_bounding_box",
          "query_inside_rectangle", "inside_rectangle", "set_position"}

\* what drop_object calls for every obj of objs
DropCalls(objs) ==
    IF objs = <<>> THEN {}
    ELSE {"drop_object", "get_position", "get_stack_placement_height", "get_bounding_box",
          "query_inside_rectangle", "inside_rectangle", "set_position"}

\* what setup_geometry calls for every obj of objs
RenderCalls(objs) == IF objs = <<>> THEN {} ELSE {"render"}

\* what the GUI thread calls inside the "with" block it stands in
CallsUnderLock ==
    IF pc.op = "set_selected_bounding_boxes: locked" THEN LiftCalls(selected_objects)
    ELSE IF pc.op = "reset_all_bounding_boxes: locked" THEN DropCalls(objects)
    ELSE IF pc.op = "setup_geometry: locked" THEN RenderCalls(objects)
    ELSE IF pc.op = "process_updates: locked" THEN {"get_nowait", "append", "remove"}
    ELSE {}

\* threading.Lock is not reentrant: calls made by the thread that holds
\* Scene.lock return only if none of them takes it
Proceeds(calls) == calls \cap WithLock = {}

\* OpenGLWidget.set_selected_bounding_boxes: "with self.scene.lock"
SetSelectedAcquire ==
    /\ pc.op = "set_selected_bounding_boxes"
    /\ lock = "free"
    /\ lock' = "ui"
    /\ pc' = [pc EXCEPT !.op = "set_selected_bounding_boxes: locked"]
    /\ UNCHANGED <<side_vars, objects, update_queue, view_vars, ret, ra_absent, ra_added, join_vars>>

\* OpenGLWidget.set_selected_bounding_boxes: the block under the lock
SetSelectedBoundingBoxes ==
    /\ pc.op = "set_selected_bounding_boxes: locked"
    /\ Proceeds(CallsUnderLock)
    /\ selected' = SetSelected(selected_objects, TRUE)
    /\ position' = LiftLoop(position, selected_objects)
    /\ Below(position')
    /\ lock' = "free"
    /\ pc' = Idle
    /\ ret' = Ret("set_selected_bounding_boxes", None, None)
    /\ UNCHANGED <<side_vars, objects, update_queue, vertices, selected_objects,
                   ra_absent, ra_added, join_vars>>

\* OpenGLWidget.reset_all_bounding_boxes: "with self.scene.lock"
ResetAllAcquire ==
    /\ pc.op = "idle"
    /\ lock = "free"
    /\ lock' = "ui"
    /\ pc' = At("reset_all_bounding_boxes: locked", None, None)
    /\ UNCHANGED <<side_vars, objects, update_queue, view_vars, ret, ra_absent, ra_added, join_vars>>

\* OpenGLWidget.reset_all_bounding_boxes: the block under the lock
ResetAllBoundingBoxes ==
    /\ pc.op = "reset_all_bounding_boxes: locked"
    /\ Proceeds(CallsUnderLock)
    /\ selected' = SetSelected(objects, FALSE)
    /\ position' = DropLoop(position, objects)
    /\ Below(position')
    /\ lock' = "free"
    /\ pc' = Idle
    /\ ret' = Ret("reset_all_bounding_boxes", None, None)
    /\ UNCHANGED <<side_vars, objects, update_queue, vertices, selected_objects,
                   ra_absent, ra_added, join_vars>>

\* mouseReleaseEvent with a selection rectangle, up to Scene.query_inside ->
\* query_inside_rectangle, about to iterate over objects
MouseReleaseEvent(cam_pos, click_start_3d, click_end_3d) ==
    /\ pc.op = "idle"
    /\ pc' = At("query_inside_rectangle", Project(cam_pos, click_start_3d),
                Project(cam_pos, click_end_3d))
    /\ UNCHANGED <<side_vars, objects, update_queue, view_vars, lock, ret, ra_absent, ra_added, join_vars>>

\* Scene.query_inside_rectangle: one pass of "for obj in self.objects"
QueryInsideRectangleIterate ==
    /\ pc.op = "query_inside_rectangle"
    /\ pc.i <= Len(objects)
    /\ pc' = [pc EXCEPT !.i = @ + 1,
                        !.inside = IF InsideRectangle(objects[pc.i], pc.a, pc.b)
                                   THEN @ \cup {objects[pc.i]} ELSE @]
    /\ UNCHANGED <<side_vars, objects, update_queue, view_vars, lock, ret, ra_absent, ra_added, join_vars>>

\* Scene.query_inside returns its set, mouseReleaseEvent keeps it as
\* selected_objects (to be iterated in some order) and selects
QueryInsideRectangleReturn ==
    /\ pc.op = "query_inside_rectangle"
    /\ pc.i > Len(objects)
    /\ ret' = Ret("query_inside", [start |-> pc.a, end |-> pc.b], pc.inside)
    /\ \E order \in Lists(pc.inside) :
          /\ Range(order) = pc.inside
          /\ selected_objects' = order
    /\ pc' = At("set_selected_bounding_boxes", None, None)
    /\ UNCHANGED <<side_vars, objects, update_queue, position, vertices, selected, lock,
                   ra_absent, ra_added, join_vars>>

\* paintGL -> setup_geometry: "with self.scene.lock"
SetupGeometryAcquire ==
    /\ pc.op = "idle"
    /\ lock = "free"
    /\ lock' = "ui"
    /\ pc' = At("setup_geometry: locked", None, None)
    /\ UNCHANGED <<side_vars, objects, update_queue, view_vars, ret, ra_absent, ra_added, join_vars>>

\* setup_geometry: the block under the lock; paintGL goes on to
\* update_image_sequence_connector_line -> Scene.get_object_positions
SetupGeometry(ready) ==
    /\ pc.op = "setup_geometry: locked"
    /\ Proceeds(CallsUnderLock)
    /\ SetupGeometryBlock(ready)
    /\ lock' = "free"
    /\ pc' = At("get_object_positions", None, None)

\* Scene.get_object_positions: one pass of "for obj in self.objects"
GetObjectPositionsIterate ==
    /\ pc.op = "get_object_positions"
    /\ pc.i <= Len(objects)
    /\ pc' = [pc EXCEPT !.i = @ + 1,
                        !.out = IF ObjectType(objects[pc.i]) = "image"
                                THEN Append(@, position[objects[pc.i]]) ELSE @]
    /\ UNCHANGED <<side_vars, objects, update_queue, view_vars, lock, ret, ra_absent, ra_added, join_vars>>

\* Scene.get_object_positions returns, paintGL is done
GetObjectPositionsReturn ==
    /\ pc.op = "get_object_positions"
    /\ pc.i > Len(objects)
    /\ ret' = Ret("get_object_positions", None, pc.out)
    /\ pc' = Idle
    /\ UNCHANGED <<side_vars, objects, update_queue, view_vars, lock, ra_absent, ra_added, join_vars>>

NextThreads ==
    \/ \E obj \in Tiles : Room /\ AddObject(obj)
    \/ \E obj \in Tiles : Room /\ RemoveObject(obj)
    \/ TimerTick
    \/ \E c \in StoreClicks : MousePressEvent(StoreCam, c)
    \/ QueryIterate
    \/ QueryReturn
    \/ ResetSelectedBoundingBoxes
    \/ SetSelectedAcquire
    \/ SetSelectedBoundingBoxes
    \/ ResetAllAcquire
    \/ ResetAllBoundingBoxes
    \/ \E a \in StoreClicks : MouseReleaseEvent(StoreCam, StoreOrigin, a)
    \/ QueryInsideRectangleIterate
    \/ QueryInsideRectangleReturn
    \/ SetupGeometryAcquire
    \/ SetupGeometry(Tiles)
    \/ GetObjectPositionsIterate
    \/ GetObjectPositionsReturn

SpecThreads == Init /\ [][NextThreads]_vars

\* -------------------------------------------- process_updates, step by step
\* the timer's tick, paintGL or another caller on the GUI thread enters
\* Scene.process_updates(max_iterations): iterations = 0
ProcessUpdatesCall(max_iterations) ==
    /\ pc.op = "idle"
    /\ pc' = [Idle EXCEPT !.op = "process_updates", !.a = max_iterations]
    /\ UNCHANGED <<side_vars, objects, update_queue, view_vars, lock, ret, ra_absent,
                   ra_added, join_vars>>

\* "while iterations < max_iterations: ... with self.lock"
ProcessUpdatesAcquire ==
    /\ pc.op = "process_updates"
    /\ pc.i < pc.a
    /\ lock = "free"
    /\ lock' = "ui"
    /\ pc' = [pc EXCEPT !.op = "process_updates: locked"]
    /\ UNCHANGED <<side_vars, objects, update_queue, view_vars, ret, ra_absent, ra_added,
                   join_vars>>

\* the block under the lock: get_nowait raises queue.Empty, which leaves the
\* block and the loop, or hands out the entry that is applied to objects;
\* leaving the block either way releases the lock
ProcessUpdatesGetNowait ==
    /\ pc.op = "process_updates: locked"
    /\ Proceeds(CallsUnderLock)
    /\ lock' = "free"
    /\ IF update_queue = <<>>
       THEN /\ pc' = Idle
            /\ ret' = Ret("process_updates", pc.a, pc.i > 0)
            /\ UNCHANGED <<objects, update_queue>>
       ELSE \E r \in {ProcessLoop(objects, update_queue, 0, 1)} :
               /\ objects' = r.objects
               /\ update_queue' = r.queue
               /\ pc' = [pc EXCEPT !.op = "process_updates: task_done"]
               /\ UNCHANGED ret
    /\ UNCHANGED <<side_vars, view_vars, ra_absent, ra_added, join_vars>>

\* self.update_queue.task_done() left out; updated = True; iterations += 1
ProcessUpdatesNoTaskDone ==
    /\ pc.op = "process_updates: task_done"
    /\ pc' = [pc EXCEPT !.op = "process_updates", !.i = @ + 1]
    /\ UNCHANGED <<side_vars, objects, update_queue, view_vars, lock, ret, ra_absent,
                   ra_added, join_vars>>

\* self.update_queue.task_done(); updated = True; iterations += 1
ProcessUpdatesTaskDone ==
    /\ pc.op = "process_updates: task_done"
    /\ unfinished_tasks' = unfinished_tasks - 1
    /\ pc' = [pc EXCEPT !.op = "process_updates", !.i = @ + 1]
    /\ UNCHANGED <<side_vars, objects, update_queue, view_vars, lock, ret, ra_absent,
                   ra_added, producer>>

\* the loop ends at max_iterations: return updated
ProcessUpdatesReturn ==
    /\ pc.op = "process_updates"
    /\ pc.i >= pc.a
    /\ pc' = Idle
    /\ ret' = Ret("process_updates", pc.a, pc.i > 0)
    /\ UNCHANGED <<side_vars, objects, update_queue, view_vars, lock, ra_absent, ra_added,
                   join_vars>>

\* ------------------------------------------------- the holders of the lock
\* the GUI thread's handlers that take Scene.lock, a producer thread calling
\* add_object and remove_object beside them
\* the tiles the producer adds, and the one it removes again
ProducerAdds == {1, 2}

ProducerRemoves == {1}

NextLock ==
    \/ \E obj \in ProducerAdds : Room /\ AddObject(obj)
    \/ \E obj \in ProducerRemoves : Room /\ RemoveObject(obj)
    \/ \E k \in 1 .. MaxIterations : ProcessUpdatesCall(k)
    \/ ProcessUpdatesAcquire
    \/ ProcessUpdatesGetNowait
    \/ ProcessUpdatesTaskDone
    \/ ProcessUpdatesReturn
    \/ \E c \in StoreClicks : MousePressEvent(StoreCam, c)
    \/ QueryIterate
    \/ QueryReturn
    \/ ResetSelectedBoundingBoxes
    \/ SetSelectedAcquire
    \/ SetSelectedBoundingBoxes
    \/ ResetAllAcquire
    \/ ResetAllBoundingBoxes
    \/ SetupGeometryAcquire
    \/ SetupGeometry(Tiles)
    \/ GetObjectPositionsIterate
    \/ GetObjectPositionsReturn

SpecLock == Init /\ [][NextLock]_vars

\* ---------------------------------------------------------- connector line
\* The tour over the image tiles (models/connector_line.py).  Positions are in
\* 1/64 scene units; solve_tsp divides them by (2.5, 1, 1), which is kept in
\* integers by carrying five times the normalized coordinates.
Normalize(p) == [x |-> 2 * p.x, y |-> 5 * p.y, z |-> 5 * p.z]

\* the square of np.linalg.norm(p - q)
Norm2(p, q) ==
    (p.x - q.x) * (p.x - q.x) + (p.y - q.y) * (p.y - q.y) + (p.z - q.z) * (p.z - q.z)

\* quadtree.intersect(bbox): the indices (from 0) of the points in the box
Intersect(points, bbox) ==
    {i \in 0 .. Len(points) - 1 :
        /\ bbox.minx <= points[i + 1].x /\ points[i + 1].x <= bbox.maxx
        /\ bbox.miny <= points[i + 1].y /\ points[i + 1].y <= bbox.maxy}

\* one pass of the loop of tsp_nearest_neighbor: the indices min() may return
\* (which of several equally near ones depends on the order of the list)
NearestPoints(points, current, unvisited) ==
    LET bbox == [minx |-> points[current + 1].x - NeighborBox,
                 maxx |-> points[current + 1].x + NeighborBox,
                 miny |-> points[current + 1].y - NeighborBox,
                 maxy |-> points[current + 1].y + NeighborBox]
        found == Intersect(points, bbox) \cap unvisited
        neighbors == IF found = {} THEN unvisited ELSE found
    IN {i \in neighbors :
          \A j \in neighbors :
             Norm2(points[current + 1], points[i + 1])
                <= Norm2(points[current + 1], points[j + 1])}

\* the loop of tsp_nearest_neighbor: the orders it may append from current on
RECURSIVE TourLoop(_, _, _)
TourLoop(points, current, unvisited) ==
    IF unvisited = {} THEN {<<>>}
    ELSE UNION {{<<i>> \o rest : rest \in TourLoop(points, i, unvisited \ {i})} :
                  i \in NearestPoints(points, current, unvisited)}

\* tsp_nearest_neighbor without unvisited.remove(current) at the start
TspRevisiting(points) ==
    {<<0>> \o rest : rest \in TourLoop(points, 0, 0 .. Len(points) - 1)}

\* tsp_nearest_neighbor: the orders it may return (points not empty)
TspNearestNeighbor(points) ==
    {<<0>> \o rest : rest \in TourLoop(points, 0, 1 .. Len(points) - 1)}

\* what a call returns or raises
Returned(order) == [order |-> order, error |-> "none"]

Raised(error) == [order |-> <<>>, error |-> error]

\* ConnectorLine.solve_tsp: dividing an empty array (shape (0,)) by one of
\* shape (3,) raises ValueError
SolveTsp(positions) ==
    IF Len(positions) = 0 THEN {Raised("ValueError")}
    ELSE {Returned(order) :
            order \in TspNearestNeighbor([i \in 1 .. Len(positions) |->
                                             Normalize(positions[i])])}

\* Scene.remove_connector_line_object: the queue it leaves (connector_line
\* is None afterwards)
RemoveConnectorLineObject(q) ==
    IF connector_line.exists THEN RemoveObjectQueue(q, connector_line.handle) ELSE q

\* ConnectorLine(pos): a new object, one that neither objects nor the queue
\* q refers to (of the handles free, the least)
NewLine(q) ==
    LET free == {l \in Lines : /\ l \notin Range(objects)
                               /\ \A i \in 1 .. Len(q) : q[i].obj # l}
    IN IF free = {} THEN {} ELSE {SetMin(free)}

\* OpenGLWidget.compute_optimal_image_sequence, pos being what
\* Scene.get_object_positions has returned: the old line is dropped, a
\* ConnectorLine is built over pos and becomes Scene.connector_line
ComputeOptimalImageSequence(pos) ==
    LET removed == RemoveConnectorLineObject(update_queue)
    IN \E r \in SolveTsp(pos) : \E con_line \in NewLine(removed) :
          LET q == IF r.error # "none" THEN removed
                   ELSE AddObjectQueue(removed, con_line)
          IN /\ lock = "free"
             /\ Fits(q)
             /\ connector_line' =
                   IF r.error # "none" THEN NoLine
                   ELSE [exists |-> TRUE, positions |-> pos, order |-> r.order,
                         visible |-> TRUE, handle |-> con_line]
             /\ update_queue' = q
             /\ TrackHistory(q)
             /\ ret' = Ret("compute_optimal_image_sequence", pos, r)
             /\ UNCHANGED <<manager, objects, view_vars, thread_vars, producer>>

\* OpenGLWidget.update_image_sequence_connector_line ->
\* Scene.update_connector_line_positions -> ConnectorLine.update_positions
UpdateImageSequenceConnectorLine(pos) ==
    /\ connector_line' = IF connector_line.exists
                         THEN [connector_line EXCEPT !.positions = pos]
                         ELSE connector_line
    /\ ret' = Ret("update_image_sequence_connector_line", pos, Returned(<<>>))
    /\ UNCHANGED <<manager, objects, update_queue, view_vars, thread_vars,
                   ra_absent, ra_added, join_vars>>

\* Scene.toggle_connector_line_visibility -> ConnectorLine.toggle_visibility
ToggleConnectorLineVisibility ==
    /\ connector_line' = IF connector_line.exists
                         THEN [connector_line EXCEPT !.visible = ~@]
                         ELSE connector_line
    /\ ret' = Ret("toggle_connector_line_visibility", <<>>, Returned(<<>>))
    /\ UNCHANGED <<manager, objects, update_queue, view_vars, thread_vars,
                   ra_absent, ra_added, join_vars>>

\* ConnectorLine.render_object: the points drawn, or the IndexError of
\* self.positions[index]
RenderObject ==
    LET line == connector_line
        skip == \/ ~line.visible
                \/ SetMax(Range(line.order)) > Len(line.positions)
        bad == \E k \in 1 .. Len(line.order) : line.order[k] >= Len(line.positions)
    IN /\ line.exists
       /\ ret' = Ret("render_object", <<>>,
                     IF skip THEN Returned(<<>>)
                     ELSE IF bad THEN Raised("IndexError")
                     ELSE Returned(line.order))
       /\ UNCHANGED <<side_vars, objects, update_queue, view_vars, thread_vars,
                      ra_absent, ra_added, join_vars>>

\* the positions tours are built over: the origin, a point nearby, a point in
\* the far corner of the origin's box, and a nearer one just outside that box
TourPoints == {[x |-> 0, y |-> 0, z |-> 0], [x |-> 64, y |-> 0, z |-> 0],
               [x |-> 300, y |-> 120, z |-> 0], [x |-> 350, y |-> 0, z |-> 0]}

TourInputs == UNION {[1 .. n -> TourPoints] : n \in 0 .. MaxPoints}

\* the positions after an image tile has gone or come
Reshaped(pos) ==
    (IF pos = <<>> THEN {} ELSE {SubSeq(pos, 1, Len(pos) - 1)})
    \cup (IF Len(pos) < MaxPoints
          THEN {Append(pos, [x |-> 0, y |-> 0, z |-> 0])} ELSE {})

NextTour ==
    \/ \E pos \in TourInputs : ComputeOptimalImageSequence(pos)
    \/ \E pos \in Reshaped(connector_line.positions) :
          UpdateImageSequenceConnectorLine(pos)
    \/ ToggleConnectorLineVisibility
    \/ RenderObject

SpecTour == Init /\ [][NextTour]_vars

\* the connector line and the store: the sequence is computed over no image
\* tile or one, the consumer ticking in between
LineInputs == {pos \in TourInputs : Len(pos) <= 1}

NextLine ==
    \/ \E pos \in LineInputs : ComputeOptimalImageSequence(pos)
    \/ \E k \in 1 .. MaxIterations : ProcessUpdates(k)
    \/ RunProcessUpdates

SpecLine == Init /\ [][NextLine]_vars

\* ------------------------------------------------------------------ two_opt
\* The 2-opt pass over a tour (models/connector_line.py, lines 8-70).  A tour
\* is a tuple of 0-based indices into points, as in the code.  The tours
\* looked at lie on a line (y = z = 0), where np.linalg.norm of a difference
\* is the integer |dx| and the sums the code compares are exact.  Tours of
\* fewer than two points are left out: find_outlier_edges then takes the
\* percentile of an empty array, which the library decides.
Abs(n) == IF n < 0 THEN -n ELSE n

\* np.linalg.norm(p - q) for points on a line
Norm(p, q) == Abs(p.x - q.x)

RECURSIVE SumTo(_, _)
SumTo(f, n) == IF n = 0 THEN 0 ELSE f[n] + SumTo(f, n - 1)

\* calculate_total_distance: i runs over range(len(order)), and order[i - 1]
\* at i = 0 is the last entry, so the edge back to the start is in the sum
CalculateTotalDistance(order, points) ==
    LET n == Len(order)
        prev(k) == IF k = 1 THEN n ELSE k - 1
    IN SumTo([k \in 1 .. n |->
                 Norm(points[order[k] + 1], points[order[prev(k)] + 1])], n)

\* distances[k] of find_outlier_edges: the edge from tour position k to k + 1
Distances(points, order) ==
    [k \in 0 .. Len(order) - 2 |->
        Norm(points[order[k + 2] + 1], points[order[k + 1] + 1])]

\* find_outlier_edges: np.percentile(distances, 0.5) interpolates between the
\* two smallest of the m distances, d0 + 0.005 * (m - 1) * (d1 - d0) (m < 201);
\* distance > 2 * that, with both sides times 100
FindOutlierEdges(points, order) ==
    LET distances == Distances(points, order)
        m == Len(order) - 1
        idx == 0 .. m - 1
        k0 == CHOOSE k \in idx : \A l \in idx : distances[k] <= distances[l]
        d0 == distances[k0]
        d1 == IF m = 1 THEN d0
              ELSE LET k1 == CHOOSE k \in idx \ {k0} :
                                \A l \in idx \ {k0} :
                                    distances[k] <= distances[l]
                   IN distances[k1]
    IN {<<k, k + 1>> : k \in {l \in idx :
            100 * distances[l] > 200 * d0 + (m - 1) * (d1 - d0)}}

SkippedAtStart(i, outliers) == \E outlier \in outliers : i = outlier[1]

\* any(i in outlier for outlier in outliers)
Skipped(i, outliers) == \E outlier \in outliers : i = outlier[1] \/ i = outlier[2]

\* the (i, j) the two for loops of one pass reach past both "continue"s, in
\* the order they reach them
RECURSIVE Segments(_, _, _, _)
Segments(i, j, n, outliers) ==
    IF i > n - 2 THEN <<>>
    ELSE IF Skipped(i, outliers) \/ j > n - 1
         THEN Segments(i + 1, i + 2, n, outliers)
    ELSE (IF j - i = 1 THEN <<>> ELSE << <<i, j>> >>)
         \o Segments(i, j + 1, n, outliers)

\* best_order[:i] + best_order[i:j][::-1] + best_order[j:]
Reversed(order, i, j) ==
    [k \in 1 .. Len(order) |->
        IF i + 1 <= k /\ k <= j THEN order[i + 1 + j - k] ELSE order[k]]

ImprovesOrTies(new_distance, best_distance) == new_distance <= best_distance

\* if new_distance < best_distance
Improves(new_distance, best_distance) == new_distance < best_distance

\* the body of the inner loop over the segments of one pass; the result is
\* <<best_order, improved>> (best_distance is the distance of best_order).
\* b is best_order, bound so that it is worked out once per round.
RECURSIVE TryReversals(_, _, _, _)
TryReversals(best_order, improved, segs, points) ==
    IF segs = <<>> THEN <<best_order, improved>>
    ELSE CHOOSE done \in
             {LET new_order == Reversed(b, Head(segs)[1], Head(segs)[2])
                  new_distance == CalculateTotalDistance(new_order, points)
                  best_distance == CalculateTotalDistance(b, points)
              IN IF Improves(new_distance, best_distance)
                 THEN TryReversals(new_order, TRUE, Tail(segs), points)
                 ELSE TryReversals(b, improved, Tail(segs), points)
              : b \in {best_order}} : TRUE

LoopingToLimit(improved, iters) == iters < TwoOptMaxIterations

\* while improved and iters < 32
Looping(improved, iters) == improved /\ iters < TwoOptMaxIterations

\* two_opt up to its loop: pc.best is best_order, pc.out improved, pc.i iters,
\* pc.b outliers, pc.a points, pc.inside the segments the last pass tried
TwoOptCall(points, order) ==
    /\ pc.op = "idle"
    /\ pc' = [Idle EXCEPT !.op = "two_opt", !.i = 0, !.a = points,
                          !.b = FindOutlierEdges(points, order),
                          !.best = order, !.out = TRUE]
    /\ ret' = Ret("two_opt", <<points, order>>, None)
    /\ UNCHANGED <<objects, update_queue, view_vars, lock, ra_absent, ra_added,
                   side_vars, join_vars>>

\* one round of the while loop, "outliers = []" at its end included
TwoOptPass ==
    /\ pc.op = "two_opt"
    /\ Looping(pc.out, pc.i)
    /\ \E segs \in {Segments(1, 2, Len(pc.best), pc.b)} :
       \E done \in {TryReversals(pc.best, FALSE, segs, pc.a)} :
          pc' = [pc EXCEPT !.i = @ + 1, !.b = {}, !.best = done[1],
                           !.inside = Range(segs), !.out = done[2]]
    /\ UNCHANGED <<objects, update_queue, view_vars, lock, ret, ra_absent, ra_added,
                   side_vars, join_vars>>

\* return best_order: pc keeps the locals of the call that has returned, and
\* pc.best is what it returned
TwoOptReturn ==
    /\ pc.op = "two_opt"
    /\ ~Looping(pc.out, pc.i)
    /\ pc' = [pc EXCEPT !.op = "idle"]
    /\ UNCHANGED <<objects, update_queue, view_vars, lock, ret, ra_absent,
                   ra_added, side_vars, join_vars>>

\* the x of the points tours are built over
TwoOptXs == {0, 1, 2, 10}

OnLine(x) == [x |-> x, y |-> 0, z |-> 0]

\* the tours over n points looked at: the points in index order, and from
\* point 0 the other way round
Tours(n) ==
    {[k \in 1 .. n |-> k - 1],
     [k \in 1 .. n |-> IF k = 1 THEN 0 ELSE n + 1 - k]}

\* two_opt keeps nothing between calls: the model looks at one call per run
FirstCall == ret.op = "init"

NextTwoOpt ==
    \/ /\ FirstCall
       /\ \E n \in 2 .. MaxTour : \E xs \in [1 .. n -> TwoOptXs] :
             \E order \in Tours(n) :
                 TwoOptCall([k \in 1 .. n |-> OnLine(xs[k])], order)
    \/ TwoOptPass
    \/ TwoOptReturn

SpecTwoOpt == Init /\ [][NextTwoOpt]_vars

\* two_opt is straight-line code: once called it keeps running
SpecTwoOptRun == SpecTwoOpt /\ WF_vars(TwoOptPass) /\ WF_vars(TwoOptReturn)

\* ----------------------------------------------------------- scene manager
\* The tiles a SceneManager tracks (models/scene_manager.py).  Names are
\* numbers in their sorted order, 0 the parent folder "..".
\* Names are the character codes of one-letter names; the image files looked
\* at are "B", "a", "D", "c", ...: their order by code (B, D, a, c) is not
\* their order without case (a, B, c, D), and no two differ by case only
FileName(k) == IF k % 2 = 1 THEN 65 + k ELSE 95 + k

FileNames == {FileName(k) : k \in 1 .. MaxFiles}

\* str.lower on a one-letter name
Lower(name) == IF name \in 65 .. 90 THEN name + 32 ELSE name

\* names.sort() without key=str.lower
SortedByCode(names) == SortedSeq(names)

\* names.sort(key=str.lower), no two names having the same key
RECURSIVE SortedByLower(_)
SortedByLower(names) ==
    IF names = {} THEN <<>>
    ELSE LET m == CHOOSE x \in names : \A y \in names : Lower(x) <= Lower(y)
         IN <<m>> \o SortedByLower(names \ {m})

\* the one subfolder looked at
DirNames == {1}

Names(items) == {items[k].name : k \in 1 .. Len(items)}

KeepAll(items, names) == items

Keep(items, names) == SelectSeq(items, LAMBDA item : item.name \in names)

\* int(np.ceil(np.sqrt(new_object_count)))
GridDim(count) ==
    CHOOSE g \in 0 .. count : g * g >= count /\ \A h \in 0 .. g - 1 : h * h < count

\* (u_[k] * w, -v_[k] * h, 0) + new_grid_offset, u_ and v_ the flattened meshgrid
GridCell(k, grid_dim, new_grid_offset) ==
    [x |-> (k % grid_dim) * SpacingW + new_grid_offset.x,
     y |-> new_grid_offset.y - (k \div grid_dim) * SpacingH,
     z |-> 0]

\* the loop over new_folder_names
NewFolders(names, grid_dim, new_grid_offset) ==
    [k \in 1 .. Len(names) |->
        [position |-> GridCell(k - 1, grid_dim, new_grid_offset), name |-> names[k]]]

\* the loop over new_image_names without the shift by len(new_folder_names)
NewImagesUnshifted(names, shift, grid_dim, new_grid_offset) ==
    [k \in 1 .. Len(names) |->
        [position |-> GridCell(k - 1, grid_dim, new_grid_offset), name |-> names[k]]]

\* the loop over new_image_names, shift being len(new_folder_names)
NewImages(names, shift, grid_dim, new_grid_offset) ==
    [k \in 1 .. Len(names) |->
        [position |-> GridCell(k - 1 + shift, grid_dim, new_grid_offset),
         name |-> names[k]]]

\* SceneManager.scan_directory on a folder holding the given image files and
\* subfolders: the manager it leaves
Scanned(mgr, files, dirs) ==
    LET new_image_names == SortedByLower(files \ Names(mgr.images))
        new_folder_names == SortedByLower(dirs \ Names(mgr.folders))
        images == Keep(mgr.images, files)
        folders == Keep(mgr.folders, dirs \cup {0})
        new_grid_offset == [x |-> mgr.max_pos.x + SpacingW, y |-> mgr.min_pos.y, z |-> 0]
        new_object_count == Len(new_image_names) + Len(new_folder_names)
        grid_dim == GridDim(new_object_count)
    IN [mgr EXCEPT
          !.images = images \o NewImages(new_image_names, Len(new_folder_names),
                                         grid_dim, new_grid_offset),
          !.folders = folders \o NewFolders(new_folder_names, grid_dim, new_grid_offset)]

\* SceneManager.load_state on what save_state has written: min_pos and
\* max_pos are taken from the positions of the tiles loaded
LoadState(mgr) ==
    LET items == mgr.images \o mgr.folders
        xs == {items[k].position.x : k \in 1 .. Len(items)}
        ys == {items[k].position.y : k \in 1 .. Len(items)}
        zs == {items[k].position.z : k \in 1 .. Len(items)}
    IN IF items = <<>>
       THEN [mgr EXCEPT !.min_pos = NewManager.min_pos, !.max_pos = NewManager.max_pos]
       ELSE [mgr EXCEPT !.min_pos = [x |-> SetMin(xs), y |-> SetMin(ys), z |-> SetMin(zs)],
                        !.max_pos = [x |-> SetMax(xs), y |-> SetMax(ys), z |-> SetMax(zs)]]

\* old_image_names and old_folder_names
TrackedNames(mgr) == [images |-> Names(mgr.images), folders |-> Names(mgr.folders)]

\* the tiles stay within the columns looked at
InColumns(mgr) ==
    LET items == mgr.images \o mgr.folders
    IN \A k \in 1 .. Len(items) : items[k].position.x <= MaxColumn * SpacingW

\* SceneManager.scan_directory called again on the same manager
\* (Controller.rescan_folder_and_update_scene)
ScanDirectory(files, dirs) ==
    /\ manager' = Scanned(manager, files, dirs)
    /\ InColumns(manager')
    /\ ret' = Ret("scan_directory", TrackedNames(manager), None)
    /\ UNCHANGED <<connector_line, objects, update_queue, view_vars, thread_vars,
                   ra_absent, ra_added, join_vars>>

\* SceneManager.__init__ on the folder (opened for the first time or again):
\* load_state, then scan_directory
SceneManagerInit(files, dirs) ==
    /\ manager' = Scanned(LoadState(manager), files, dirs)
    /\ InColumns(manager')
    /\ ret' = Ret("scan_directory", TrackedNames(manager), None)
    /\ UNCHANGED <<connector_line, objects, update_queue, view_vars, thread_vars,
                   ra_absent, ra_added, join_vars>>

NextScan ==
    \/ \E files \in SUBSET FileNames : \E dirs \in SUBSET DirNames :
          ScanDirectory(files, dirs)
    \/ \E files \in SUBSET FileNames : \E dirs \in SUBSET DirNames :
          SceneManagerInit(files, dirs)

SpecScan == Init /\ [][NextScan]_vars

\* =================================================================== claims
Iterations == (1 .. MaxIterations) \cup {TimerMaxIterations}

\* the mutations one process_updates(k) call takes off the queue
Batch(k) == SubSeq(update_queue, 1, Min(k, Len(update_queue)))

AllOf(batch, action) == \A i \in 1 .. Len(batch) : batch[i].action = action

Objs(batch) == [i \in 1 .. Len(batch) |-> batch[i].obj]

\* C1: no tile occurs more than once in Scene.objects, in any reachable state
NoDuplicateTiles ==
    \A i, j \in 1 .. Len(objects) : i # j => objects[i] # objects[j]

\* C2: process_updates(k) takes exactly the first min(k, pending) mutations off
\* the queue, applies them in enqueue order and leaves the rest queued in their
\* order: a batch of adds appends its tiles in enqueue order, a batch of removes
\* adds none
FifoBatch ==
    [][\A k \in Iterations : ProcessUpdates(k) =>
          LET n == Min(k, Len(update_queue))
          IN /\ update_queue' = SubSeq(update_queue, n + 1, Len(update_queue))
             /\ AllOf(Batch(k), "add") => objects' = objects \o Objs(Batch(k))
             /\ AllOf(Batch(k), "remove") =>
                   /\ Range(objects') \subseteq Range(objects)
                   /\ Len(objects') >= Len(objects) - n]_vars

\* C2 witness: a process_updates(1) call has applied one Add of several, the
\* tile is visible and the later mutations are still queued
PartialFlushDone ==
    /\ ret.op = "process_updates"
    /\ ret.arg = 1
    /\ ret.res = TRUE
    /\ Len(objects) = 2
    /\ objects[1] # objects[2]
    /\ Len(update_queue) = 1
    /\ update_queue[1].action = "add"

\* C3: once process_updates has dequeued the Remove of a tile (and no later Add
\* of it in the same call), the tile is not in objects
LastFor(batch, obj) ==
    LET at == {i \in 1 .. Len(batch) : batch[i].obj = obj}
    IN IF at = {} THEN "none" ELSE batch[SetMax(at)].action

RemovedIsGone ==
    [][\A k \in Iterations : ProcessUpdates(k) =>
          \A obj \in AllObjs :
             LastFor(Batch(k), obj) = "remove" => obj \notin Range(objects')]_vars

\* C4: add_object(t) called twice in a row (no process_updates in between)
\* leaves the queue as one call does, and so does remove_object(t)
IdempotentEnqueue ==
    [][\A obj \in Tiles :
          /\ (/\ ret.op = "add_object"
              /\ update_queue # <<>>
              /\ update_queue[Len(update_queue)] = Put("add", obj)
              /\ AddObject(obj)) => update_queue' = update_queue
          /\ (/\ ret.op = "remove_object"
              /\ update_queue # <<>>
              /\ update_queue[Len(update_queue)] = Put("remove", obj)
              /\ RemoveObject(obj)) => update_queue' = update_queue]_vars

\* C5: once the queue has drained after a remove_all_objects call, every tile
\* that was in objects at the call is absent and every tile whose Add was
\* enqueued after the call is present
RemoveAllThenDrain ==
    update_queue = <<>> =>
        /\ ra_absent \cap Range(objects) = {}
        /\ ra_added \subseteq Range(objects)

\* C6: while a read (query, query_inside_rectangle under query_inside,
\* get_object_positions) iterates over objects, its thread holds Scene.lock
ReadsHoldLock ==
    pc.op \in ReadOps => lock = "ui"

\* C7: every step of set_selected_bounding_boxes, reset_selected_bounding_boxes
\* and reset_all_bounding_boxes that writes the selected flag and the height of
\* a tile (through lift_object / drop_object) starts with Scene.lock held by
\* the writing thread
WritesUnderLock ==
    [][(\/ SetSelectedBoundingBoxes /\ selected_objects # <<>>
        \/ ResetSelectedBoundingBoxes /\ selected_objects # <<>>
        \/ ResetAllBoundingBoxes /\ objects # <<>>) => lock = "ui"]_vars

\* C8: query returns None exactly when no tile of objects has a footprint
\* (position +/- size / 2, bounds inclusive) holding the projected point, and
\* otherwise a hit tile at least as high as every other hit tile
Footprint(obj) ==
    [minx |-> position[obj].x - Size(obj).w \div 2,
     maxx |-> position[obj].x + Size(obj).w \div 2,
     miny |-> position[obj].y - Size(obj).h \div 2,
     maxy |-> position[obj].y + Size(obj).h \div 2]

Hits(point) ==
    {obj \in Range(objects) :
        /\ point.x \in Footprint(obj).minx .. Footprint(obj).maxx
        /\ point.y \in Footprint(obj).miny .. Footprint(obj).maxy}

PickTopmost ==
    ret.op = "query" =>
        LET hits == Hits(Project(ret.arg.cam_pos, ret.arg.click_pos_3d))
        IN /\ ret.res = None <=> hits = {}
           /\ ret.res # None =>
                 /\ ret.res \in hits
                 /\ \A h \in hits : position[ret.res].z >= position[h].z

\* C8 witness: a pick through a pile of two tiles at different heights, the
\* lower one first in objects, on the edge of the upper one's footprint
PickedThroughPile ==
    /\ ret.op = "query"
    /\ Len(objects) = 2
    /\ Hits(Project(ret.arg.cam_pos, ret.arg.click_pos_3d)) = Range(objects)
    /\ position[objects[1]].z < position[objects[2]].z
    /\ Project(ret.arg.cam_pos, ret.arg.click_pos_3d).x = Footprint(objects[2]).maxx
    /\ ret.res = objects[2]

\* C9: query, query_inside and query_inside_rectangle return only tiles that
\* are in objects at the call, never one whose Add is still pending
QueryOnlyStored ==
    /\ ret.op = "query" => ret.res = None \/ ret.res \in Range(objects)
    /\ ret.op \in {"query_inside", "query_inside_rectangle"} =>
          ret.res \subseteq Range(objects)

\* C9 witness: a pick at a point inside the footprint of a tile whose Add is
\* pending, higher than whatever the pick returned
PendingTileNotPicked ==
    /\ ret.op = "query"
    /\ \E i \in 1 .. Len(update_queue) :
          LET obj == update_queue[i].obj
          IN /\ update_queue[i].action = "add"
             /\ obj \notin Range(objects)
             /\ RayIntersectsObject(ret.arg.cam_pos, ret.arg.click_pos_3d, obj)
             /\ ret.res # None
             /\ position[obj].z > position[ret.res].z

\* C10: query_inside_rectangle includes every tile whose footprint lies fully
\* inside the rectangle and excludes every tile fully outside it (no overlap of
\* the boxes, no edge crossing, the rectangle not inside the footprint)
RectBox(start, end) ==
    [minx |-> Min(start.x, end.x), maxx |-> Max(start.x, end.x),
     miny |-> Min(start.y, end.y), maxy |-> Max(start.y, end.y)]

BoxInside(a, b) ==
    /\ b.minx <= a.minx /\ a.maxx <= b.maxx
    /\ b.miny <= a.miny /\ a.maxy <= b.maxy

BoxesOverlap(a, b) ==
    /\ a.maxx >= b.minx /\ a.minx <= b.maxx
    /\ a.maxy >= b.miny /\ a.miny <= b.maxy

FullyOutside(obj, start, end) ==
    /\ ~BoxesOverlap(Footprint(obj), RectBox(start, end))
    /\ ~EdgesIntersect(CreateVertices(position[obj], Size(obj)), start, end)
    /\ ~BoxInside(RectBox(start, end), Footprint(obj))

RectangleSelects ==
    ret.op = "query_inside_rectangle" =>
        \A obj \in Range(objects) :
           /\ BoxInside(Footprint(obj), RectBox(ret.arg.start, ret.arg.end))
                 => obj \in ret.res
           /\ FullyOutside(obj, ret.arg.start, ret.arg.end) => obj \notin ret.res

\* C11: rectangle selection is symmetric in its corners: what query_inside and
\* query_inside_rectangle return for (start, end) is what they return for
\* (end, start)
RectangleSymmetric ==
    ret.op \in {"query_inside", "query_inside_rectangle"} =>
        ret.res = QueryInsideRectangleResult(ret.arg.end, ret.arg.start)

\* C11 witness: a rectangle given by its lower right and upper left corners has
\* selected some of the tiles shown and not all of them
SelectedFromMixedCorners ==
    /\ ret.op = "query_inside_rectangle"
    /\ ret.arg.start.x > ret.arg.end.x
    /\ ret.arg.start.y < ret.arg.end.y
    /\ ret.res # {}
    /\ ret.res # Range(objects)

\* C12: a selection rectangle of zero area (both corners at the same point)
\* selects nothing, wherever the point lies
ZeroAreaSelectsNothing ==
    (/\ ret.op \in {"query_inside", "query_inside_rectangle"}
     /\ ret.arg.start = ret.arg.end) => ret.res = {}

\* C13: get_stack_placement_height is 0 when no other tile of objects overlaps
\* the tile's bounding box and the greatest height of the other overlapping
\* tiles plus one stacking step otherwise: a tile just lifted stands at that
\* height, strictly above every other tile overlapping its footprint
Overlapping(obj) ==
    {o \in Range(objects) \ {obj} : BoxesOverlap(Footprint(o), Footprint(obj))}

TopOfPile(obj) ==
    IF Overlapping(obj) = {} THEN 0
    ELSE SetMax({position[o].z : o \in Overlapping(obj)}) + 1

LiftedOnTop ==
    (ret.op = "mousePressEvent" /\ ret.arg.lifted) =>
        /\ position[ret.res].z = TopOfPile(ret.res)
        /\ \A o \in Overlapping(ret.res) : position[o].z < position[ret.res].z

\* C14: lift and drop assign the same height: a tile selected and then
\* deselected (a click on no tile), nothing else changing, stands at the top of
\* the pile under it, and lifting or dropping it once more leaves it there
DropSettles ==
    (ret.op = "mousePressEvent" /\ ret.res = None /\ ret.arg.just_selected) =>
        \A obj \in Range(ret.arg.dropped) :
           /\ position[obj].z = TopOfPile(obj)
           /\ DropObject(position, obj) = LiftObject(position, obj)
           /\ LiftObject(position, obj) = position
           /\ DropObject(position, obj) = position

\* C15: the tour built over n >= 1 positions is a permutation of 0 .. n-1: it
\* has n entries, every index occurs in it, and it starts at index 0 (so it
\* is [0] when n = 1)
Built == ret.op = "compute_optimal_image_sequence"

TourIsPermutation ==
    (Built /\ Len(ret.arg) >= 1) =>
        /\ ret.res.error = "none"
        /\ Len(ret.res.order) = Len(ret.arg)
        /\ Range(ret.res.order) = 0 .. Len(ret.arg) - 1
        /\ ret.res.order[1] = 0
        /\ connector_line.order = ret.res.order

TourOutOfInputOrder ==
    /\ Built
    /\ Len(ret.arg) >= 3
    /\ ret.res.error = "none"
    /\ ret.res.order[2] # 1

\* C16: every index appended to the tour is a point not yet visited that is,
\* in the normalized coordinates, at the least Euclidean distance from the
\* point appended before it among all the points not yet visited
Visited(order, k) == {order[j] : j \in 1 .. k}

EmptyTour ==
    (Built /\ Len(ret.arg) = 0) =>
        /\ ret.res.error = "none"
        /\ ret.res.order = <<>>

\* C18: render_object draws nothing whenever the greatest index of the order
\* is not below the number of positions, and never indexes the positions out
\* of range, whatever update_positions has left
RenderInRange ==
    ret.op = "render_object" =>
        /\ ret.res.error = "none"
        /\ SetMax(Range(connector_line.order)) >= Len(connector_line.positions)
              => ret.res.order = <<>>

\* C19: within one scan_directory call no two of the new items, folders and
\* images taken together, are given the same position
ScanNew(items, before) ==
    {k \in 1 .. Len(items) : items[k].name \notin before}

NewPositions ==
    {manager.images[k].position : k \in ScanNew(manager.images, ret.arg.images)}
    \cup {manager.folders[k].position :
             k \in ScanNew(manager.folders, ret.arg.folders)}

NewItemsApart ==
    ret.op = "scan_directory" =>
        Cardinality(NewPositions)
           = Cardinality(ScanNew(manager.images, ret.arg.images))
             + Cardinality(ScanNew(manager.folders, ret.arg.folders))

NewFolderAndImagesPlaced ==
    /\ ret.op = "scan_directory"
    /\ Cardinality(ScanNew(manager.folders, ret.arg.folders)) >= 1
    /\ Cardinality(ScanNew(manager.images, ret.arg.images)) >= 2
    /\ Len(manager.folders) >= 2

\* C20: every position scan_directory gives to a new item lies at least one
\* spacing to the right of every tile tracked before the scan and still
\* tracked after it, however many scans the manager has made
TrackedBefore ==
    {manager.images[k].position :
        k \in (1 .. Len(manager.images)) \ ScanNew(manager.images, ret.arg.images)}
    \cup {manager.folders[k].position :
             k \in (1 .. Len(manager.folders))
                      \ ScanNew(manager.folders, ret.arg.folders)}

NewItemsRightOfTracked ==
    ret.op = "scan_directory" =>
        \A new \in NewPositions : \A old \in TrackedBefore :
            new.x >= old.x + SpacingW

\* C21: the new items of a scan, the folders in their order without case and
\* then the images in theirs, fill a grid of ceil(sqrt(count)) columns row by
\* row: the k-th (from 0) lies k mod grid_dim columns to the right of and
\* k div grid_dim rows below the first
NewItems ==
    {[position |-> manager.folders[k].position, name |-> manager.folders[k].name,
      image |-> FALSE] : k \in ScanNew(manager.folders, ret.arg.folders)}
    \cup {[position |-> manager.images[k].position, name |-> manager.images[k].name,
           image |-> TRUE] : k \in ScanNew(manager.images, ret.arg.images)}

Before(a, b) ==
    \/ ~a.image /\ b.image
    \/ a.image = b.image /\ Lower(a.name) < Lower(b.name)

Rank(item) == Cardinality({other \in NewItems : Before(other, item)})

Columns(count, grid_dim) ==
    /\ grid_dim * grid_dim >= count
    /\ (grid_dim - 1) * (grid_dim - 1) < count

RasterOrder ==
    ret.op = "scan_directory" =>
        \A first \in NewItems : Rank(first) = 0 =>
           \E grid_dim \in 1 .. Cardinality(NewItems) :
              /\ Columns(Cardinality(NewItems), grid_dim)
              /\ \A item \in NewItems :
                    /\ item.position.x
                          = first.position.x + (Rank(item) % grid_dim) * SpacingW
                    /\ item.position.y
                          = first.position.y - (Rank(item) \div grid_dim) * SpacingH
                    /\ item.position.z = 0

SecondRowReached ==
    /\ ret.op = "scan_directory"
    /\ Cardinality(NewItems) >= 3
    /\ \E a \in NewItems : \E b \in NewItems :
          /\ a.image /\ b.image
          /\ a.name < b.name
          /\ Rank(a) > Rank(b)
          /\ a.position.y < b.position.y

\* C22: process_updates returns True exactly when the call has taken at least
\* one mutation off the queue and applied it, and False otherwise: on an empty
\* queue it returns False and leaves objects as they are
FlushReports ==
    [][\A k \in Iterations : ProcessUpdates(k) =>
          /\ ret'.res = (Batch(k) # <<>>)
          /\ ret'.res = (Len(update_queue') < Len(update_queue))
          /\ update_queue = <<>> => ~ret'.res /\ objects' = objects]_vars

FlushedAll ==
    /\ ret.op = "process_updates"
    /\ ret.res
    /\ update_queue = <<>>
    /\ Len(objects) >= 2

\* C23: add_object of a tile that is in objects and remove_object of a tile
\* that is not enqueue nothing and leave objects and the queue as they are; a
\* process_updates call whose mutations are all removes of tiles no longer in
\* objects takes them off the queue and leaves objects as they are
SilentNoOps ==
    [][/\ \A obj \in Tiles :
             /\ (AddObject(obj) /\ obj \in Range(objects)) =>
                   UNCHANGED <<objects, update_queue>>
             /\ (RemoveObject(obj) /\ obj \notin Range(objects)) =>
                   UNCHANGED <<objects, update_queue>>
       /\ \A k \in Iterations :
             (/\ ProcessUpdates(k)
              /\ AllOf(Batch(k), "remove")
              /\ Range(Objs(Batch(k))) \cap Range(objects) = {}) =>
                 /\ objects' = objects
                 /\ Len(update_queue') = Len(update_queue) - Len(Batch(k))]_vars

AddedWhenAllStored ==
    /\ ret.op = "add_object"
    /\ update_queue = <<>>
    /\ Range(objects) = Tiles

\* C24: lifting and dropping change heights only, and only those of the tiles
\* lifted or dropped: a press or a release leaves the x, y of every tile and
\* the whole position of every tile neither selected before nor after as they
\* are.  A drag adds the same (dx, dy) to every selected tile and leaves the z
\* of every tile and the x, y of every unselected tile as they are.
Flat(p) == [x |-> p.x, y |-> p.y]

HandlersKeepAxes ==
    [][/\ (ret'.op \in {"mousePressEvent", "mouseReleaseEvent"}) =>
             \A o \in AllObjs :
                /\ Flat(position'[o]) = Flat(position[o])
                /\ o \notin Range(selected_objects) \cup Range(selected_objects')
                      => position'[o] = position[o]
       /\ \A dx, dy \in MouseSteps :
             (/\ MouseMoveEvent(SelectCam, dx, dy)
              /\ CurrentButton = "left"
              /\ selected_objects # <<>>) =>
                \A o \in AllObjs :
                   /\ position'[o].z = position[o].z
                   /\ o \in Range(selected_objects) =>
                         /\ position'[o].x = position[o].x + dx
                         /\ position'[o].y = position[o].y - dy
                   /\ o \notin Range(selected_objects) =>
                         position'[o] = position[o]]_vars

TwoTilesDragged ==
    /\ ret.op = "mouseMoveEvent"
    /\ Len(selected_objects) >= 2
    /\ \E o \in Range(selected_objects) : position[o].z > 0
    /\ \E o, other \in Range(selected_objects) : Flat(position[o]) # Flat(position[other])

\* C25: two_opt terminates on every input tour: once called it returns; it
\* never makes more than 32 passes; a pass reports an improvement exactly when
\* it kept a reversal, and the pass after one that kept none does not happen
TwoOptTerminates ==
    /\ (pc.op = "two_opt") ~> (pc.op = "idle")
    /\ [](pc.op = "two_opt" => pc.i <= TwoOptMaxIterations)
    /\ [][(pc.op = "two_opt" /\ pc'.op = "two_opt") =>
             /\ pc'.i = pc.i + 1
             /\ pc'.out <=> (pc'.best # pc.best)
             /\ pc.i >= 1 => pc.out]_vars

TwoOptStoppedAfterIdlePass ==
    /\ pc.op = "idle"
    /\ ret.op = "two_opt"
    /\ pc.i = 2
    /\ pc.best # ret.arg[2]

\* the length of the open path along a tour: the distances between
\* consecutive tour points
OpenPathLength(order, points) ==
    SumTo([k \in 1 .. Len(order) - 1 |->
              Norm(points[order[k + 1] + 1], points[order[k] + 1])],
          Len(order) - 1)

\* C26: what two_opt returns is a permutation of the order it was given, and
\* its open path is no longer than the given order's; a pass that changes the
\* order strictly shortens the open path
TwoOptShortens ==
    /\ [](pc.op = "idle" /\ ret.op = "two_opt" =>
             /\ Len(pc.best) = Len(ret.arg[2])
             /\ Range(pc.best) = Range(ret.arg[2])
             /\ OpenPathLength(pc.best, ret.arg[1])
                    <= OpenPathLength(ret.arg[2], ret.arg[1]))
    /\ [][(pc.op = "two_opt" /\ pc'.op = "two_opt" /\ pc'.best # pc.best) =>
             OpenPathLength(pc'.best, pc.a) < OpenPathLength(pc.best, pc.a)]_vars

TwoOptShortened ==
    /\ pc.op = "idle"
    /\ ret.op = "two_opt"
    /\ pc.best # ret.arg[2]
    /\ OpenPathLength(pc.best, ret.arg[1])
           < OpenPathLength(ret.arg[2], ret.arg[1])

\* the sub-segments [i, j) of a tour of n points a pass may reverse
AllSegments(n) == {seg \in (1 .. n - 2) \X (3 .. n - 1) : seg[2] - seg[1] >= 2}

\* the outlier edges of the tour two_opt was called with
InitialOutliers == FindOutlierEdges(ret.arg[1], ret.arg[2])

\* an edge touches [i, j) when one of its two tour positions is in i .. j - 1
Touches(edge, seg) ==
    \E p \in {edge[1], edge[2]} : seg[1] <= p /\ p <= seg[2] - 1

Deselected(old, kept) ==
    \A o \in AllObjs :
       /\ o \in old \ kept => ~selected'[o]
       /\ o \notin old \cup kept => selected'[o] = selected[o] /\ position'[o] = position[o]

PressTransitions ==
    [][ret'.op = "mousePressEvent" =>
          LET clicked == ret'.res
              on_tile == clicked # None /\ ret'.arg.button = "left"
              old == Range(selected_objects)
          IN /\ (on_tile /\ clicked \notin old) =>
                   /\ selected_objects' = <<clicked>>
                   /\ selected'[clicked]
                   /\ position'[clicked].z
                         = GetStackPlacementHeight(clicked, position'[clicked], position')
                   /\ Deselected(old, {clicked})
             /\ (on_tile /\ clicked \in old) =>
                   UNCHANGED <<selected_objects, selected, position>>
             /\ ~on_tile =>
                   /\ selected_objects' = <<>>
                   /\ Deselected(old, {})]_vars

SelectionReplaced ==
    /\ ret.op = "mousePressEvent"
    /\ ret.arg.lifted
    /\ ret.arg.dropped # <<>>
    /\ selected_objects = <<ret.res>>
    /\ \E o \in Range(ret.arg.dropped) : ~selected[o]

\* C30: sync_objects(L) on an empty queue and objects without duplicates,
\* followed by a full drain, leaves exactly the tiles of L in objects, each
\* once: the tiles of L that were missing are added, and what is not in L, an
\* enlarged view too, is removed
Drained(objs, q) == ProcessLoop(objs, q, 0, Len(q))

SyncThenDrain ==
    [][\A S \in SUBSET Tiles :
          (/\ SyncObjects(SortedSeq(S))
           /\ update_queue = <<>>
           /\ NoDuplicateTiles) =>
              LET after == Drained(objects, update_queue')
              IN /\ after.queue = <<>>
                 /\ Range(after.objects) = S
                 /\ Len(after.objects) = Cardinality(S)]_vars

SyncedOverEnlargedView ==
    /\ ret.op = "sync_objects"
    /\ LargeTile \in Range(objects)
    /\ NoDuplicateTiles
    /\ \E S \in SUBSET Tiles :
          /\ S \ Range(objects) # {}
          /\ update_queue = SyncObjectsQueue(<<>>, SortedSeq(S))

\* C31: a scan_directory call on a manager leaves one tile for every image
\* file and every subfolder now in the folder and none for a name that is
\* gone, and every tile tracked before whose name is still there is kept as
\* it was, its position included, in the order the tiles had
ScanTracksFolder ==
    [][\A files \in SUBSET FileNames : \A dirs \in SUBSET DirNames :
          ScanDirectory(files, dirs) =>
              /\ Names(manager'.images) = files
              /\ Len(manager'.images) = Cardinality(files)
              /\ Names(manager'.folders) = dirs \cup {0}
              /\ Len(manager'.folders) = Cardinality(dirs) + 1
              /\ \A k \in 1 .. Len(manager.images) :
                    manager.images[k].name \in files =>
                        \E l \in 1 .. k : manager'.images[l] = manager.images[k]
              /\ \A k \in 1 .. Len(manager.folders) :
                    manager.folders[k].name \in dirs \cup {0} =>
                        \E l \in 1 .. k : manager'.folders[l] = manager.folders[k]]_vars

FileGoneFileComeFolderKept ==
    /\ ret.op = "scan_directory"
    /\ ret.arg.images \ Names(manager.images) # {}
    /\ Names(manager.images) \ ret.arg.images # {}
    /\ 1 \in ret.arg.folders
    /\ 1 \in Names(manager.folders)

\* C32: whatever drags, enlargements, lifts and drops have happened, the
\* vertices of every tile are the corners of its footprint around the
\* position it has now
VerticesFollowPosition ==
    \A o \in AllObjs : vertices[o] = CreateVertices(position[o], Size(o))

\* C33: whenever the update queue is empty, objects holds at most one
\* ConnectorLine, and the one it holds is the one Scene.connector_line refers
\* to
LinesOf(objs) == {i \in 1 .. Len(objs) : objs[i] \in Lines}

OneConnectorLine ==
    update_queue = <<>> =>
        /\ Cardinality(LinesOf(objects)) <= 1
        /\ \A i \in LinesOf(objects) :
              connector_line.exists /\ objects[i] = connector_line.handle

\* ------------------------------------------------ Controller.load_folder
\* tiles no list and no queue entry refers to: the ImageObjects a new
\* SceneManager creates are new objects
FreshTiles ==
    {t \in Tiles : /\ t \notin Range(objects)
                   /\ \A i \in 1 .. Len(update_queue) : update_queue[i].obj # t}

\* the lists of n different tiles out of S
TileLists(S, n) ==
    {s \in [1 .. n -> S] : \A i \in 1 .. n : \A j \in 1 .. n : s[i] = s[j] => i = j}

\* the tiles of the scene and those still to be added to it
TilesOfScene == Range(objects) \cup {e.obj : e \in {x \in Range(update_queue) : x.action = "add"}}

\* Controller.load_folder on a folder opened for the first time, holding the
\* given files and sub-folders; tiles are the new manager's folder tiles
\* ("..", then the sub-folders) followed by its image tiles
LoadFolder(files, dirs, tiles) ==
    LET removed == update_queue \o PutAll("remove", objects, AllObjs)
        folders == SubSeq(tiles, 1, 1 + Cardinality(dirs))
        images == SubSeq(tiles, 2 + Cardinality(dirs), Len(tiles))
        q == LoadObjectsIntoScene(removed, folders, images)
    IN /\ lock = "free"
       /\ Len(tiles) = 1 + Cardinality(dirs) + Cardinality(files)
       /\ Range(tiles) \subseteq FreshTiles
       /\ Fits(q)
       /\ manager' = Scanned(NewManager, files, dirs)
       /\ InColumns(manager')
       /\ update_queue' = q
       /\ ra_absent' = Range(objects) \ Range(tiles)
       /\ ra_added' = Range(tiles)
       /\ unfinished_tasks' = unfinished_tasks + Len(q) - Len(update_queue)
       /\ UNCHANGED producer
       /\ ret' = Ret("load_folder", TilesOfScene, Range(tiles))
       /\ UNCHANGED <<connector_line, objects, view_vars, thread_vars>>

\* Controller.load_folder when SceneManager(...) raises in the try and again
\* in the except branch: the handler ends after remove_all_objects, with the
\* scene manager it had
LoadFolderRaising ==
    LET removed == update_queue \o PutAll("remove", objects, AllObjs)
    IN /\ lock = "free"
       /\ Fits(removed)
       /\ update_queue' = removed
       /\ ra_absent' = Range(objects)
       /\ ra_added' = {}
       /\ unfinished_tasks' = unfinished_tasks + Len(removed) - Len(update_queue)
       /\ UNCHANGED producer
       /\ ret' = Ret("load_folder", TilesOfScene, {})
       /\ UNCHANGED <<side_vars, objects, view_vars, thread_vars>>

\* folders are loaded while tiles of the one shown are still being added
NextLoad ==
    \/ \E obj \in Tiles : AddObject(obj)
    \/ \E files \in SUBSET FileNames : \E dirs \in SUBSET DirNames :
          \E tiles \in TileLists(Tiles, 1 + Cardinality(dirs) + Cardinality(files)) :
             LoadFolder(files, dirs, tiles)
    \/ LoadFolderRaising
    \/ \E k \in 1 .. MaxIterations : ProcessUpdates(k)
    \/ RunProcessUpdates

SpecLoad == Init /\ [][NextLoad]_vars

\* C34: after Controller.load_folder and a full drain of the queue, objects
\* holds only tiles of the newly loaded folder: no tile of the previous folder
\* remains, one whose Add was still pending when load_folder was called
\* included
LoadFolderReplacesTiles ==
    [][\A files \in SUBSET FileNames : \A dirs \in SUBSET DirNames :
          \A tiles \in TileLists(Tiles, 1 + Cardinality(dirs) + Cardinality(files)) :
             LoadFolder(files, dirs, tiles) =>
                LET after == Drained(objects, update_queue')
                IN /\ after.queue = <<>>
                   /\ Range(after.objects) \subseteq Range(tiles)]_vars

\* -------------------------------------------- the mouse, a button at a time
\* The events as the widget receives them from a mouse used one button at a
\* time: a button goes down while none is held, the mouse moves, the button
\* goes up.  selection_start is then set exactly when the last press was a
\* left press on no tile, which is what ReleaseButton reads.
PressButton(button, cam_pos, click_pos_3d) ==
    /\ CurrentButton = "none"
    /\ ButtonPress(button, cam_pos, click_pos_3d)

NextMouse ==
    \/ \E button \in Buttons : \E c \in SelectClicks : PressButton(button, SelectCam, c)
    \/ \E dx, dy \in MouseSteps : MouseMoveEvent(SelectCam, dx, dy)
    \/ \E c \in SelectClicks : ReleaseButton(SelectCam, c)

SpecMouse == InitRect /\ [][NextMouse]_vars

\* C35: after every mouse press or release handler has completed, whatever the
\* mouse events before it, a tile is selected exactly when it is a member of
\* the widget's selected_objects
SelectedIffMember ==
    \A o \in AllObjs : selected[o] <=> o \in Range(selected_objects)

SeveralSelectedByRectangle ==
    /\ ret.op = "mouseReleaseEvent"
    /\ Len(selected_objects) >= 2
    /\ \A o \in Range(selected_objects) : selected[o]
    /\ \E o \in AllObjs : ~selected[o]

\* ------------------------------------- rectangles around and across tiles
\* corners on, next to and away from the sides of the tiles, which stand at
\* the corners of the unit square
OverlapXs == {-200, -64, -63, 10, 128, 129}

OverlapYs == {-100, -36, -35, 10, 100, 101}

OverlapCorners == [x : OverlapXs, y : OverlapYs]

\* query_inside_rectangle changes nothing it reads: one call on each scene
\* shows what every call returns
QueryInsideRectangleOnce(start, end) ==
    /\ FirstCall
    /\ QueryInsideRectangle(start, end)

NextOverlap ==
    \E a, b \in OverlapCorners : QueryInsideRectangleOnce(a, b)

SpecOverlap == InitRect /\ [][NextOverlap]_vars

\* C36: inside_rectangle returns True exactly when the axis-aligned bounding
\* box of the tile's vertices and the rectangle overlap on both axes, the
\* intervals being closed: the edge-intersection branch and the containment
\* branch never change the result
VertexBox(obj) ==
    LET verts == vertices[obj]
        xs == {verts[i].x : i \in 1 .. Len(verts)}
        ys == {verts[i].y : i \in 1 .. Len(verts)}
    IN [minx |-> SetMin(xs), maxx |-> SetMax(xs),
        miny |-> SetMin(ys), maxy |-> SetMax(ys)]

StrictlyInside(a, b) ==
    /\ b.minx < a.minx /\ a.minx < b.maxx /\ b.miny < a.miny /\ a.miny < b.maxy
    /\ b.minx < a.maxx /\ a.maxx < b.maxx /\ b.miny < a.maxy /\ a.maxy < b.maxy

InsideIsBoxOverlap ==
    ret.op = "query_inside_rectangle" =>
        LET rect == RectBox(ret.arg.start, ret.arg.end)
        IN /\ ret.res = {obj \in Range(objects) : BoxesOverlap(VertexBox(obj), rect)}
           /\ \A obj \in AllObjs :
                 /\ InsideRectangle(obj, ret.arg.start, ret.arg.end)
                       <=> BoxesOverlap(VertexBox(obj), rect)
                 /\ EdgesIntersect(vertices[obj], ret.arg.start, ret.arg.end)
                       => BoxesOverlap(VertexBox(obj), rect)
                 /\ StrictlyInside(rect, VertexBox(obj))
                       => BoxesOverlap(VertexBox(obj), rect)

\* a rectangle crossing the sides of one tile, lying inside the enlarged tile
\* and touching a third tile along a side only
CrossedContainedAndTouched ==
    /\ ret.op = "query_inside_rectangle"
    /\ LET rect == RectBox(ret.arg.start, ret.arg.end)
       IN /\ rect.minx < rect.maxx /\ rect.miny < rect.maxy
          /\ \E obj \in Range(objects) :
                /\ EdgesIntersect(vertices[obj], ret.arg.start, ret.arg.end)
                /\ ~BoxInside(VertexBox(obj), rect)
          /\ \E obj \in AllObjs : StrictlyInside(rect, VertexBox(obj))
          /\ \E obj \in Range(objects) :
                /\ obj \in ret.res
                /\ \/ VertexBox(obj).minx = rect.maxx
                   \/ VertexBox(obj).maxy = rect.miny
          /\ ret.res # Range(objects)

\* C37: there is no deadlock on Scene.lock: no operation acquires the lock
\* while its thread holds it (set_selected_bounding_boxes and
\* reset_all_bounding_boxes call get_stack_placement_height and
\* query_inside_rectangle with the lock held, and these take no lock), and
\* every operation has released the lock when it returns, process_updates on
\* an empty queue included: the lock is held only inside a "with" block
LockedAt ==
    {"set_selected_bounding_boxes: locked", "reset_all_bounding_boxes: locked",
     "setup_geometry: locked", "process_updates: locked"}

NoSelfDeadlock ==
    /\ lock = "ui" => pc.op \in LockedAt /\ CallsUnderLock \cap WithLock = {}
    /\ pc.op \notin LockedAt => lock = "free"

LiftedUnderLock ==
    /\ ret.op = "set_selected_bounding_boxes"
    /\ selected_objects # <<>>
    /\ pc.op = "idle"
    /\ lock = "free"

\* --------------------------------------- the producer thread and its join
\* PicPylesController.modify_scene_thread: with redraw_scene set the folder
\* tiles and the image tiles of the scene manager are added one by one; then,
\* round after round, the thread sleeps and waits in update_queue.join()
ProducerList == SortedSeq(Tiles)

\* self.scene.add_object(...) inside the two for loops
ProducerAddObject ==
    LET q == AddObjectQueue(update_queue, ProducerList[producer.next])
    IN /\ producer.at = "add_object"
       /\ producer.next <= Len(ProducerList)
       /\ lock = "free"
       /\ update_queue' = q
       /\ TrackHistory(q)
       /\ producer' = [producer EXCEPT !.next = @ + 1]
       /\ UNCHANGED <<side_vars, objects, view_vars, thread_vars, ret>>

\* the for loops are through: redraw_scene = False, and time.sleep(0.1)
ProducerSleep ==
    /\ \/ producer.at = "add_object" /\ producer.next > Len(ProducerList)
       \/ producer.at = "joined"
    /\ producer' = [producer EXCEPT !.at = "sleep"]
    /\ UNCHANGED <<side_vars, objects, update_queue, view_vars, thread_vars, ret,
                   ra_absent, ra_added, unfinished_tasks>>

\* time.sleep is over: the thread calls update_queue.join()
ProducerJoin ==
    /\ producer.at = "sleep"
    /\ producer' = [producer EXCEPT !.at = "join"]
    /\ UNCHANGED <<side_vars, objects, update_queue, view_vars, thread_vars, ret,
                   ra_absent, ra_added, unfinished_tasks>>

\* update_queue.join() returns once unfinished_tasks is zero
ProducerJoined ==
    /\ producer.at = "join"
    /\ unfinished_tasks = 0
    /\ producer' = [producer EXCEPT !.at = "joined"]
    /\ UNCHANGED <<side_vars, objects, update_queue, view_vars, thread_vars, ret,
                   ra_absent, ra_added, unfinished_tasks>>

\* the consumer's tick: the timer's run_process_updates, paintGL's
\* process_updates(), or a call with a smaller max_iterations
ProcessUpdatesTick ==
    \E k \in (1 .. MaxIterations) \cup {TimerMaxIterations} : ProcessUpdatesCall(k)

NextDrain ==
    \/ ProducerAddObject
    \/ ProducerSleep
    \/ ProducerJoin
    \/ ProducerJoined
    \/ ProcessUpdatesTick
    \/ ProcessUpdatesAcquire
    \/ ProcessUpdatesGetNowait
    \/ ProcessUpdatesTaskDone
    \/ ProcessUpdatesReturn
    \/ SetupGeometryAcquire
    \/ SetupGeometry(Tiles)
    \/ GetObjectPositionsIterate
    \/ GetObjectPositionsReturn

SpecDrain == Init /\ [][NextDrain]_vars

\* the consumer ticks again and again, and a thread that is inside a call
\* keeps running it; the producer is held to nothing but to return from join
\* when join lets it
SpecDrainTicking ==
    /\ SpecDrain
    /\ SF_vars(ProcessUpdatesTick)
    /\ WF_vars(ProcessUpdatesAcquire)
    /\ WF_vars(ProcessUpdatesGetNowait)
    /\ WF_vars(ProcessUpdatesTaskDone)
    /\ WF_vars(ProcessUpdatesReturn)
    /\ WF_vars(SetupGeometry(Tiles))
    /\ WF_vars(GetObjectPositionsIterate)
    /\ WF_vars(GetObjectPositionsReturn)
    /\ WF_vars(ProducerJoined)

\* C38: under fair ticking of the consumer, once the producer enqueues no
\* more, finitely many process_updates calls leave the queue empty with every
\* enqueued mutation applied; task_done is called once for every entry taken
\* off the queue (unfinished_tasks counts the entries queued and the one being
\* applied), so that a producer waiting in update_queue.join() is released
Added == SubSeq(ProducerList, 1, producer.next - 1)

BeingApplied == IF pc.op = "process_updates: task_done" THEN 1 ELSE 0

DrainsAndReleasesJoin ==
    /\ [](unfinished_tasks = Len(update_queue) + BeingApplied)
    /\ <>[](update_queue = <<>> /\ unfinished_tasks = 0 /\ objects = Added)
    /\ (producer.at = "join") ~> (producer.at = "joined")

JoinReleasedAfterDrain ==
    /\ producer.at = "joined"
    /\ ret.op = "process_updates"
    /\ ret.res
    /\ objects = ProducerList
    /\ unfinished_tasks = 0

====
